---- MODULE Spec2Model ----
(***************************************************************************)
(* Maestro: semantic cache, query router, metrics log and the              *)
(* orchestrator's process_query pipeline (src/backend/core).               *)
(*                                                                         *)
(* Units.  Similarities and thresholds are in hundredths (0.88 -> 88),     *)
(* confidences in ten-thousandths (0.85 -> 8500), costs in                 *)
(* ten-thousandths of a dollar (0.003 -> 30, 0.0001 -> 1), time in whole   *)
(* seconds.                                                                *)
(***************************************************************************)
EXTENDS Integers, Sequences, FiniteSets, TLC

VARIABLES
    cache,                 \* SemanticCache.cache: entries in dict (insertion) order
    stats,                 \* SemanticCache.stats
    similarity_threshold,  \* SemanticCache.similarity_threshold
    max_size,              \* SemanticCache.max_size
    config,                \* MaestroOrchestrator.config
    classification_cache,  \* QueryRouter.classification_cache
    gemini_available,      \* QueryRouter.gemini_available
    strategies,            \* the module's STRATEGIES table, shared by every caller
    queries,               \* MetricsCollector.queries
    aggregated,            \* MetricsCollector.aggregated
    now,                   \* time.time()
    threads,               \* the calls in flight that run step by step
    ret,                   \* what the last call gave back to its caller
    returned,              \* number of process_query calls that returned so far
    classified,            \* the tier classify_query gave each query string last
    nops                   \* number of calls made so far

cacheVars == <<cache, stats, similarity_threshold, max_size>>
routerVars == <<classification_cache, gemini_available>>
metricsVars == <<queries, aggregated>>
vars == <<cache, stats, similarity_threshold, max_size, config, classification_cache,
          gemini_available, strategies, queries, aggregated, now, threads, ret,
          returned, classified, nops>>

(***************************************************************************)
(* Bounds of the model.                                                    *)
(***************************************************************************)
MaxSize == 2
MaxTime == 2
MaxOps == 3
MaxRouteOps == 2
MaxWarmOps == 4
MaxThreads == 3
MaxWriters == 2
MaxCalls == 2
MaxInFlight == 2
MaxReadOps == 4
MaxServeOps == 3
MaxRecentOps == 4
MaxLimit == 2

(***************************************************************************)
(* Program constants.                                                      *)
(***************************************************************************)
MinCacheConfidence == 8500
DefaultTtl == 3600
DefaultThreshold == 88
CacheHitCost == 1
CacheHitLatency == 5

(***************************************************************************)
(* Queries and the embedding collaborator.  A query is its text; Embed is  *)
(* a fixed function of the text (SentenceTransformer.encode).              *)
(***************************************************************************)
QRefund == "what is x"
QReturn == "how do x"
QVersus == "a vs b"

Queries == {QRefund, QReturn, QVersus}

\* QRefund in other letter cases
QRefundTitle == "What is x"
QRefundCaps == "WHAT IS X"

\* query strings that differ in case only; the embedder gives them one embedding
WarmQueries == {QRefund, QRefundTitle, QRefundCaps}

\* further query strings for the router
QEmpty == ""
QSixWords == "a b c d e f"
QWhatLong == "what is a b c d"
QPadded == " what is a b c d"
QHowVersus == "how do a vs b"

RouterQueries ==
    Queries \cup WarmQueries \cup {QEmpty, QSixWords, QWhatLong, QPadded, QHowVersus}

\* the characters of each query text
Text(q) ==
    CASE q = QRefund -> <<"w", "h", "a", "t", " ", "i", "s", " ", "x">>
      [] q = QReturn -> <<"h", "o", "w", " ", "d", "o", " ", "x">>
      [] q = QVersus -> <<"a", " ", "v", "s", " ", "b">>
      [] q = QRefundTitle -> <<"W", "h", "a", "t", " ", "i", "s", " ", "x">>
      [] q = QRefundCaps -> <<"W", "H", "A", "T", " ", "I", "S", " ", "X">>
      [] q = QEmpty -> <<>>
      [] q = QSixWords -> <<"a", " ", "b", " ", "c", " ", "d", " ", "e", " ", "f">>
      [] q = QWhatLong ->
            <<"w", "h", "a", "t", " ", "i", "s", " ", "a", " ", "b", " ", "c", " ", "d">>
      [] q = QPadded ->
            <<" ", "w", "h", "a", "t", " ", "i", "s", " ", "a", " ", "b", " ", "c", " ", "d">>
      [] q = QHowVersus ->
            <<"h", "o", "w", " ", "d", "o", " ", "a", " ", "v", "s", " ", "b">>

Embed(q) ==
    CASE q \in WarmQueries -> <<5, 0>>
      [] q = QReturn -> <<8, 6>>
      [] q = QVersus -> <<0, 3>>

Dot(a, b) == a[1] * b[1] + a[2] * b[2]

\* np.linalg.norm on the vectors above (all have an integral norm)
Norm(a) == CHOOSE n \in 0..10 : n * n = Dot(a, a)

\* np.dot(a, b) / (norm(a) * norm(b)), in hundredths
Cosine(a, b) == (Dot(a, b) * 100) \div (Norm(a) * Norm(b))

Thresholds == {0, 80, DefaultThreshold}

(***************************************************************************)
(* SemanticCache                                                           *)
(***************************************************************************)
PyNone == "None"

NoResult == [source |-> "NONE"]

InitStats == [total_queries |-> 0, cache_hits |-> 0, cache_misses |-> 0]

RECURSIVE ScanBest(_, _, _, _, _)
\* the for-loop of get: index of the best match so far (0: none) and its
\* similarity, scanning the entries from position i on
ScanBest(c, qe, i, best, bestSim) ==
    IF i > Len(c) THEN [match |-> best, similarity |-> bestSim]
    ELSE LET similarity == Cosine(qe, c[i].query_embedding)
         IN  IF similarity > bestSim
             THEN ScanBest(c, qe, i + 1, i, similarity)
             ELSE ScanBest(c, qe, i + 1, best, bestSim)

\* faulty variant of BestMatch: the first entry is taken, not the nearest
FirstEntry(c, q) ==
    IF c = <<>> THEN [match |-> 0, similarity |-> 0]
    ELSE [match |-> 1, similarity |-> Cosine(Embed(q), c[1].query_embedding)]

\* the entry get compares with the threshold, and its similarity

BestMatch(c, q) == ScanBest(c, Embed(q), 1, 0, 0)

RemoveAt(c, i) == SubSeq(c, 1, i - 1) \o SubSeq(c, i + 1, Len(c))

\* faulty variants of Expired: the entry expires on reaching its ttl; one second late
ExpiredAtTtl(e, t) == t - e.cached_at >= e.ttl

ExpiredLate(e, t) == t - e.cached_at > e.ttl + 1

\* time.time() - best_match.cached_at > best_match.ttl
Expired(e, t) == t - e.cached_at > e.ttl

\* faulty variant of HitResult: a hit is charged what the entry cost, and takes
\* as long as a retrieval
EntryResult(e, similarity) ==
    [answer |-> e.answer,
     documents |-> e.documents,
     confidence |-> e.confidence,
     cost |-> e.cost,
     latency_ms |-> CacheHitLatency,
     source |-> "CACHE",
     strategy |-> e.strategy,
     complexity |-> e.complexity,
     cache_similarity |-> similarity,
     original_query |-> e.query,
     hit_count |-> e.hit_count]

\* cache.py lines 103 to 116: what a hit returns

HitResult(e, similarity) ==
    [answer |-> e.answer,
     documents |-> e.documents,
     confidence |-> e.confidence,
     cost |-> CacheHitCost,
     latency_ms |-> CacheHitLatency,
     source |-> "CACHE",
     strategy |-> e.strategy,
     complexity |-> e.complexity,
     cache_similarity |-> similarity,
     original_query |-> e.query,
     hit_count |-> e.hit_count]

\* faulty variant of CountHit: a hit also renews the entry's cached_at
RefreshHit(c, i, t) == [c EXCEPT ![i].hit_count = @ + 1, ![i].cached_at = t]

\* faulty variant of CountHit: a hit is counted on every entry
CountEvery(c, i, t) == [j \in 1..Len(c) |-> [c[j] EXCEPT !.hit_count = @ + 1]]

\* cache.py line 95, best_match.hit_count += 1: entry i of c is read at time t
CountHit(c, i, t) == [c EXCEPT ![i].hit_count = @ + 1]

\* SemanticCache.get: the cache and the counters it leaves, and what it returns
CacheGet(c, st, th, t, q, embed_ok) ==
    LET st1 == [st EXCEPT !.total_queries = @ + 1]
    IN  IF ~embed_ok
        THEN [cache |-> c, stats |-> st1, outcome |-> "raised", result |-> NoResult]
        ELSE
        LET b == BestMatch(c, q)
        IN  IF b.match # 0 /\ b.similarity >= th
            THEN LET st2 == [st1 EXCEPT !.cache_hits = @ + 1]
                     c2 == CountHit(c, b.match, t)
                 IN  IF Expired(c2[b.match], t)
                     THEN [cache |-> RemoveAt(c2, b.match),
                           stats |-> [st2 EXCEPT !.cache_misses = @ + 1],
                           outcome |-> "miss", result |-> NoResult]
                     ELSE [cache |-> c2, stats |-> st2, outcome |-> "hit",
                           result |-> HitResult(c2[b.match], b.similarity)]
            ELSE [cache |-> c, stats |-> [st1 EXCEPT !.cache_misses = @ + 1],
                  outcome |-> "miss", result |-> NoResult]

\* SemanticCache.get_stats; hit_rate in ten-thousandths
GetStats(c, st) ==
    [total_queries |-> st.total_queries,
     cache_hits |-> st.cache_hits,
     cache_misses |-> st.cache_misses,
     hit_rate |-> IF st.total_queries > 0
                  THEN (st.cache_hits * 10000) \div st.total_queries
                  ELSE 0,
     cache_size |-> Len(c)]

\* faulty variants of BelowGate: the gate one step lower; no gate
BelowLowerGate(confidence) == confidence < MinCacheConfidence - 1

NoGate(confidence) == FALSE

\* if confidence < 0.85: return
BelowGate(confidence) == confidence < MinCacheConfidence

RECURSIVE OldestFrom(_, _, _)
\* min(self.cache.keys(), key=cached_at): the first entry, in dict order,
\* whose cached_at is the least
OldestFrom(c, i, best) ==
    IF i > Len(c) THEN best
    ELSE IF c[i].cached_at < c[best].cached_at
         THEN OldestFrom(c, i + 1, i)
         ELSE OldestFrom(c, i + 1, best)

\* faulty variant of OldestKey: the entry put last is evicted
LastKey(c) == Len(c)

OldestKey(c) == OldestFrom(c, 2, 1)

KeyIndex(c, q) ==
    IF \E i \in 1..Len(c) : c[i].query = q
    THEN CHOOSE i \in 1..Len(c) : c[i].query = q
    ELSE 0

\* faulty variant of Put: the entry is not kept
ForgetPut(c, e) == c

\* self.cache[query] = entry: an existing key keeps its place in the dict
Put(c, e) ==
    IF KeyIndex(c, e.query) # 0
    THEN [c EXCEPT ![KeyIndex(c, e.query)] = e]
    ELSE Append(c, e)

NewEntry(q, answer, documents, confidence, cost, strategy, complexity, ttl, t) ==
    [query |-> q,
     query_embedding |-> Embed(q),
     answer |-> answer,
     documents |-> documents,
     confidence |-> confidence,
     cost |-> cost,
     cached_at |-> t,
     strategy |-> strategy,
     complexity |-> complexity,
     hit_count |-> 0,
     ttl |-> ttl]

\* SemanticCache.set: the cache it leaves and how the call ended
CacheSet(c, msz, t, e, embed_ok) ==
    IF BelowGate(e.confidence)
    THEN [cache |-> c, outcome |-> "skipped", evicted |-> PyNone]
    ELSE IF Len(c) >= msz /\ Len(c) = 0
    THEN [cache |-> c, outcome |-> "raised", evicted |-> PyNone]  \* min() of nothing
    ELSE LET full == Len(c) >= msz
             c1 == IF full THEN RemoveAt(c, OldestKey(c)) ELSE c
             oldest_key == IF full THEN c[OldestKey(c)].query ELSE PyNone
         IN  IF ~embed_ok
             THEN [cache |-> c1, outcome |-> "raised", evicted |-> oldest_key]
             ELSE [cache |-> Put(c1, e), outcome |-> "stored", evicted |-> oldest_key]

\* faulty variant of CacheClear: the counters are kept
ClearEntriesOnly(c, st) == [cache |-> <<>>, stats |-> st]

\* SemanticCache.clear: the cache and the counters it leaves
CacheClear(c, st) == [cache |-> <<>>, stats |-> InitStats]

(***************************************************************************)
(* QueryRouter                                                             *)
(***************************************************************************)
\* faulty variant of STRATEGIES: balanced costs what fast costs and retrieves
\* as many documents as comprehensive
LevelledStrategies ==
    [fast |->
        [name |-> "fast", complexity |-> "simple", top_k |-> 2,
         estimated_cost |-> 30, requires_verification |-> FALSE,
         max_latency_ms |-> 200],
     balanced |->
        [name |-> "balanced", complexity |-> "moderate", top_k |-> 10,
         estimated_cost |-> 30, requires_verification |-> FALSE,
         max_latency_ms |-> 500],
     comprehensive |->
        [name |-> "comprehensive", complexity |-> "complex", top_k |-> 10,
         estimated_cost |-> 180, requires_verification |-> TRUE,
         max_latency_ms |-> 1000]]

STRATEGIES ==
    [fast |->
        [name |-> "fast", complexity |-> "simple", top_k |-> 2,
         estimated_cost |-> 30, requires_verification |-> FALSE,
         max_latency_ms |-> 200],
     balanced |->
        [name |-> "balanced", complexity |-> "moderate", top_k |-> 5,
         estimated_cost |-> 70, requires_verification |-> FALSE,
         max_latency_ms |-> 500],
     comprehensive |->
        [name |-> "comprehensive", complexity |-> "complex", top_k |-> 10,
         estimated_cost |-> 180, requires_verification |-> TRUE,
         max_latency_ms |-> 1000]]

UpperCase ==
    <<"A", "B", "C", "D", "E", "F", "G", "H", "I", "J", "K", "L", "M",
      "N", "O", "P", "Q", "R", "S", "T", "U", "V", "W", "X", "Y", "Z">>

LowerCase ==
    <<"a", "b", "c", "d", "e", "f", "g", "h", "i", "j", "k", "l", "m",
      "n", "o", "p", "q", "r", "s", "t", "u", "v", "w", "x", "y", "z">>

\* str.lower, one character
LowerChar(ch) ==
    IF \E i \in 1..Len(UpperCase) : UpperCase[i] = ch
    THEN LowerCase[CHOOSE i \in 1..Len(UpperCase) : UpperCase[i] = ch]
    ELSE ch

Lower(s) == [i \in 1..Len(s) |-> LowerChar(s[i])]

IsSpace(ch) == ch = " "

RECURSIVE Strip(_)
\* str.strip
Strip(s) ==
    IF s = <<>> THEN s
    ELSE IF IsSpace(Head(s)) THEN Strip(Tail(s))
    ELSE IF IsSpace(s[Len(s)]) THEN Strip(SubSeq(s, 1, Len(s) - 1))
    ELSE s

\* len(str.split()): the number of maximal runs of non-space characters
WordCount(s) ==
    Cardinality({i \in 1..Len(s) : ~IsSpace(s[i]) /\ (i = 1 \/ IsSpace(s[i - 1]))})

\* keyword in query_lower
Contains(s, k) ==
    \E i \in 1..(Len(s) - Len(k) + 1) : SubSeq(s, i, i + Len(k) - 1) = k

\* query_lower.startswith(prefix)
StartsWith(s, k) == Len(k) <= Len(s) /\ SubSeq(s, 1, Len(k)) = k

ComplexKeywords ==
    {<<"c", "o", "m", "p", "a", "r", "e">>,
     <<"a", "n", "a", "l", "y", "z", "e">>,
     <<"e", "v", "a", "l", "u", "a", "t", "e">>,
     <<"a", "s", "s", "e", "s", "s">>,
     <<"v", "e", "r", "s", "u", "s">>,
     <<"v", "s">>,
     <<"d", "i", "f", "f", "e", "r", "e", "n", "c", "e", " ", "b", "e", "t", "w", "e", "e", "n">>,
     <<"b", "e", "t", "t", "e", "r", " ", "t", "h", "a", "n">>,
     <<"p", "r", "o", "s", " ", "a", "n", "d", " ", "c", "o", "n", "s">>}

ModerateKeywords ==
    {<<"h", "o", "w", " ", "d", "o">>,
     <<"h", "o", "w", " ", "c", "a", "n">>,
     <<"e", "x", "p", "l", "a", "i", "n">>,
     <<"t", "e", "l", "l", " ", "m", "e", " ", "a", "b", "o", "u", "t">>,
     <<"d", "e", "s", "c", "r", "i", "b", "e">>,
     <<"w", "h", "a", "t", " ", "f", "e", "a", "t", "u", "r", "e", "s">>}

SimplePrefixes ==
    {<<"w", "h", "a", "t", " ", "i", "s">>,
     <<"w", "h", "a", "t", " ", "a", "r", "e">>,
     <<"w", "h", "o", " ", "i", "s">>,
     <<"w", "h", "e", "n", " ", "i", "s">>}

MaxSimpleWords == 5

\* faulty variant of ClassifyWithRules: the explanatory keywords come first
ModerateFirst(s) ==
    LET query_lower == Lower(s)
    IN  IF \E k \in ModerateKeywords : Contains(query_lower, k) THEN "moderate"
        ELSE IF \E k \in ComplexKeywords : Contains(query_lower, k) THEN "complex"
        ELSE IF WordCount(query_lower) <= MaxSimpleWords THEN "simple"
        ELSE IF \E k \in SimplePrefixes : StartsWith(query_lower, k) THEN "simple"
        ELSE "moderate"

\* QueryRouter._classify_with_rules, on the characters of the query
ClassifyWithRules(s) ==
    LET query_lower == Lower(s)
    IN  IF \E k \in ComplexKeywords : Contains(query_lower, k) THEN "complex"
        ELSE IF \E k \in ModerateKeywords : Contains(query_lower, k) THEN "moderate"
        ELSE IF WordCount(query_lower) <= MaxSimpleWords THEN "simple"
        ELSE IF \E k \in SimplePrefixes : StartsWith(query_lower, k) THEN "simple"
        ELSE "moderate"

\* the rule-based tier of each query text
RuleTier == [q \in RouterQueries |-> ClassifyWithRules(Text(q))]

\* query.lower().strip() of each query text
NormalizedText == [q \in RouterQueries |-> Strip(Lower(Text(q)))]

Normalized(q) == NormalizedText[q]

\* the labels _classify_with_gemini accepts
TierOfLabel ==
    (<<"s", "i", "m", "p", "l", "e">> :> "simple")
    @@ (<<"m", "o", "d", "e", "r", "a", "t", "e">> :> "moderate")
    @@ (<<"c", "o", "m", "p", "l", "e", "x">> :> "complex")

\* what self.model.generate_content does: it raises (an API error, or no
\* model attribute at all) or it answers with a text
GeminiRaises == [raised |-> TRUE, text |-> <<>>]

GeminiReplies ==
    {GeminiRaises,
     [raised |-> FALSE, text |-> <<"c", "o", "m", "p", "l", "e", "x">>],
     [raised |-> FALSE, text |-> <<" ", "S", "i", "m", "p", "l", "e", " ">>],
     [raised |-> FALSE, text |-> <<"h", "a", "r", "d">>]}

\* faulty variant of ClassifyWithGemini: the label is not validated
TrustGemini(reply) ==
    IF reply.raised THEN PyNone
    ELSE LET result == Lower(Strip(reply.text))
         IN  IF result \in DOMAIN TierOfLabel THEN TierOfLabel[result] ELSE "unknown"

\* QueryRouter._classify_with_gemini: a label, or None
ClassifyWithGemini(reply) ==
    IF reply.raised THEN PyNone
    ELSE LET result == Lower(Strip(reply.text))
         IN  IF result \in DOMAIN TierOfLabel THEN TierOfLabel[result] ELSE PyNone

\* faulty variant of ClassifyQuery: the memo is written but never read
ClassifyAnew(memo, q, available, reply) ==
    IF available /\ ClassifyWithGemini(reply) # PyNone
    THEN [tier |-> ClassifyWithGemini(reply),
          memo |-> (Normalized(q) :> ClassifyWithGemini(reply)) @@ memo,
          path |-> "gemini"]
    ELSE [tier |-> RuleTier[q],
          memo |-> (Normalized(q) :> RuleTier[q]) @@ memo,
          path |-> "rules"]

\* QueryRouter.classify_query: the tier it returns, the memo it leaves and
\* the path it took
ClassifyQuery(memo, q, available, reply) ==
    IF Normalized(q) \in DOMAIN memo
    THEN [tier |-> memo[Normalized(q)], memo |-> memo, path |-> "memo"]
    ELSE IF available /\ ClassifyWithGemini(reply) # PyNone
    THEN [tier |-> ClassifyWithGemini(reply),
          memo |-> (Normalized(q) :> ClassifyWithGemini(reply)) @@ memo,
          path |-> "gemini"]
    ELSE [tier |-> RuleTier[q],
          memo |-> (Normalized(q) :> RuleTier[q]) @@ memo,
          path |-> "rules"]

\* faulty variant of StrategyFor: a tier that is not known gets fast
StrategyOrFast(complexity) ==
    CASE complexity = "simple" -> "fast"
      [] complexity = "moderate" -> "balanced"
      [] complexity = "complex" -> "comprehensive"
      [] OTHER -> "fast"

\* the strategy_map of select_strategy, with its "balanced" default
StrategyFor(complexity) ==
    CASE complexity = "simple" -> "fast"
      [] complexity = "moderate" -> "balanced"
      [] complexity = "complex" -> "comprehensive"
      [] OTHER -> "balanced"

\* faulty variant of SelectStrategy: the preference is not looked at
IgnorePreference(complexity, user_preference) == strategies[StrategyFor(complexity)]

\* QueryRouter.select_strategy
SelectStrategy(complexity, user_preference) ==
    IF user_preference # PyNone /\ user_preference \in DOMAIN strategies
    THEN strategies[user_preference]
    ELSE strategies[StrategyFor(complexity)]

(***************************************************************************)
(* MetricsCollector                                                        *)
(***************************************************************************)
QueryMetric(t, q, source, strategy, latency_ms, cost, confidence, num_documents) ==
    [timestamp |-> t, query |-> q, source |-> source, strategy |-> strategy,
     latency_ms |-> latency_ms, cost |-> cost, confidence |-> confidence,
     num_documents |-> num_documents]

NoAggregate == [count |-> 0, total_cost |-> 0, total_latency |-> 0]

\* self.aggregated[source], a defaultdict
AggregateOf(agg, source) == IF source \in DOMAIN agg THEN agg[source] ELSE NoAggregate

\* faulty variant of LogQuery: the call is not recorded
NoLog(log, agg, m) == [queries |-> log, aggregated |-> agg]

\* MetricsCollector.log_query: the log and the aggregates it leaves
LogQuery(log, agg, m) ==
    [queries |-> Append(log, m),
     aggregated |->
        (m.source :> [count |-> AggregateOf(agg, m.source).count + 1,
                      total_cost |-> AggregateOf(agg, m.source).total_cost + m.cost,
                      total_latency |->
                          AggregateOf(agg, m.source).total_latency + m.latency_ms])
        @@ agg]

\* reversed(s)
Reversed(s) == [k \in 1..Len(s) |-> s[Len(s) - k + 1]]

\* s[start:], start counting from the end when it is negative
SliceFrom(s, start) ==
    LET from == IF start < 0
                THEN (IF Len(s) + start < 0 THEN 0 ELSE Len(s) + start)
                ELSE (IF start > Len(s) THEN Len(s) ELSE start)
    IN  SubSeq(s, from + 1, Len(s))

\* MetricsCollector.get_recent_queries: reversed(self.queries[-limit:]), each
\* record as a dict of its fields
GetRecentQueries(log, limit) == Reversed(SliceFrom(log, 0 - limit))

\* MetricsCollector._get_strategy_breakdown: the number of records by strategy
StrategyBreakdown(log) ==
    [s \in {log[i].strategy : i \in 1..Len(log)} |->
        Cardinality({i \in 1..Len(log) : log[i].strategy = s})]

RECURSIVE SumOf(_, _)
\* sum(q.<field> for q in self.queries)
SumOf(log, field) ==
    IF log = <<>> THEN 0 ELSE Head(log)[field] + SumOf(Tail(log), field)

\* naive_cost_per_query = 0.018
NaiveCostPerQuery == 180

\* MetricsCollector.get_dashboard_metrics; the rate in ten-thousandths, the
\* averages rounded down to the unit
GetDashboardMetrics(log, agg) ==
    LET total_queries == Len(log)
        total_cost == SumOf(log, "cost")
        total_latency == SumOf(log, "latency_ms")
        cost_saved == total_queries * NaiveCostPerQuery - total_cost
    IN  IF total_queries = 0
        THEN [total_queries |-> 0, cache_hit_rate |-> 0, avg_cost |-> 0,
              avg_latency_ms |-> 0, total_cost |-> 0, cost_saved |-> 0]
        ELSE [total_queries |-> total_queries,
              cache_hit_rate |->
                  (AggregateOf(agg, "cache").count * 10000) \div total_queries,
              avg_cost |-> total_cost \div total_queries,
              avg_latency_ms |-> total_latency \div total_queries,
              total_cost |-> total_cost,
              cost_saved |-> IF cost_saved > 0 THEN cost_saved ELSE 0,
              breakdown_by_strategy |-> StrategyBreakdown(log)]

(***************************************************************************)
(* The search collaborator (MockVectorDB.search): any ranked list of       *)
(* documents, cut to top_k, or an error.                                   *)
(***************************************************************************)
Doc(i, score) ==
    [id |-> <<"doc_1", "doc_2", "doc_3">>[i],
     title |-> <<"Refunds", "Shipping", "Pricing">>[i],
     category |-> "policy",
     content |-> <<"30 days", "5-7 days", "10k a year">>[i],
     similarity_score |-> score]

Ranking(scores) == [i \in 1..Len(scores) |-> Doc(i, scores[i])]

SearchRankings == {Ranking(<<20>>), Ranking(<<50, 45, 40>>)}

SearchErrors == {"DB error"}

\* what one search call does: it returns documents or raises
SearchOutcomes ==
    {[raised |-> FALSE, documents |-> r, error |-> ""] : r \in SearchRankings}
    \cup {[raised |-> TRUE, documents |-> <<>>, error |-> e] : e \in SearchErrors}

\* [-top_k:][::-1] of the ranked documents
TopK(ranking, top_k) ==
    SubSeq(ranking, 1, IF Len(ranking) < top_k THEN Len(ranking) ELSE top_k)

(***************************************************************************)
(* MaestroOrchestrator                                                     *)
(***************************************************************************)
DefaultMaxCost == 500

DefaultConfig ==
    [use_cache |-> TRUE,
     cache_threshold |-> DefaultThreshold,
     default_strategy |-> PyNone,
     max_cost_per_query |-> DefaultMaxCost,
     enable_verification |-> TRUE]

NoUserConfig == [user_config |-> PyNone]

\* faulty variant of MergeConfig: the overrides of the call are dropped
KeepConfig(cfg, user_config) == cfg

\* OrchestratorConfig(**{**config.__dict__, **user_config})
MergeConfig(cfg, user_config) ==
    IF user_config = NoUserConfig THEN cfg ELSE user_config @@ cfg

\* faulty variant of ConfigAfter: the overrides of a call stay in force
OverridesKept(cfg, user_config) ==
    IF user_config = NoUserConfig THEN cfg ELSE user_config @@ cfg

\* self.config after a call: lines 74 to 78 bind the merged configuration to
\* the local name config, and nothing assigns self.config
ConfigAfter(cfg, user_config) == cfg

Min(a, b) == IF a < b THEN a ELSE b

RECURSIVE SumScores(_)
SumScores(docs) ==
    IF docs = <<>> THEN 0 ELSE Head(docs).similarity_score + SumScores(Tail(docs))

\* MaestroOrchestrator._calculate_confidence, in ten-thousandths
CalculateConfidence(documents) ==
    IF documents = <<>> THEN 0
    ELSE LET top_score == documents[1].similarity_score
             confidence == Min((top_score + 15) * 2 * 100, 10000)
             n == Min(3, Len(documents))
         IN  IF Len(documents) > 1 /\ SumScores(SubSeq(documents, 1, n)) > 35 * n
             THEN Min((confidence * 105) \div 100, 10000)
             ELSE confidence

\* str(len(documents))
IntStr(n) == <<"0", "1", "2", "3", "4", "5", "6", "7", "8", "9", "10">>[n + 1]

\* MaestroOrchestrator._generate_answer: the pieces of the answer text
GenerateAnswer(q, documents) ==
    <<"Based on ", IntStr(Len(documents)), " relevant documents (">>
    \o [i \in 1..Min(3, Len(documents)) |-> documents[i].title]
    \o <<"), ">>
    \o (IF documents # <<>> THEN <<documents[1].content, "...">> ELSE <<>>)

\* MaestroOrchestrator._serialize_doc
SerializeDoc(doc) ==
    [id |-> doc.id,
     title |-> doc.title,
     category |-> doc.category,
     similarity_score |-> doc.similarity_score,
     content_preview |-> <<doc.content, "...">>]

FallbackAnswer == <<"I apologize, but I'm experiencing technical difficulties. Please try again in a moment.">>

\* faulty variant of FallbackResponse: the fallback claims full confidence
ConfidentFallback(q, error) ==
    [answer |-> FallbackAnswer,
     documents |-> <<>>,
     confidence |-> 10000,
     cost |-> 0,
     latency_ms |-> 0,
     source |-> "FALLBACK",
     error |-> error,
     strategy |-> "error_handling"]

\* MaestroOrchestrator._fallback_response
FallbackResponse(q, error) ==
    [answer |-> FallbackAnswer,
     documents |-> <<>>,
     confidence |-> 0,
     cost |-> 0,
     latency_ms |-> 0,
     source |-> "FALLBACK",
     error |-> error,
     strategy |-> "error_handling"]

\* MaestroOrchestrator.get_metrics: {**get_dashboard_metrics(), **get_stats()},
\* the keys of get_stats taking over those of get_dashboard_metrics
GetMetrics(log, agg, c, st) == GetStats(c, st) @@ GetDashboardMetrics(log, agg)

\* faulty variants of BudgetedStrategy: the downgrade is to balanced; no
\* budget check
DowngradeToBalanced(complexity, cfg) ==
    LET strategy == SelectStrategy(complexity, cfg.default_strategy)
    IN  IF strategy.estimated_cost > cfg.max_cost_per_query
        THEN SelectStrategy("moderate", PyNone)
        ELSE strategy

Unbudgeted(complexity, cfg) == SelectStrategy(complexity, cfg.default_strategy)

\* the strategy after the budget check of process_query (STEP 3 and 4)
BudgetedStrategy(complexity, cfg) ==
    LET strategy == SelectStrategy(complexity, cfg.default_strategy)
    IN  IF strategy.estimated_cost > cfg.max_cost_per_query
        THEN SelectStrategy("simple", PyNone)
        ELSE strategy

(***************************************************************************)
(* Inputs of the calls.                                                    *)
(***************************************************************************)
Confidences == {8499, MinCacheConfidence}
Ttls == {1, DefaultTtl}
DirectAnswers == {<<"30 days">>}
DirectCost == 100
Latencies == {120}
Configs == {[DefaultConfig EXCEPT !.cache_threshold = th] : th \in Thresholds}
UserConfigs == {NoUserConfig, [use_cache |-> FALSE]}

\* per-call overrides of the budget and of the strategy
RouteUserConfigs ==
    {NoUserConfig,
     [max_cost_per_query |-> 100],
     [max_cost_per_query |-> 10],
     [default_strategy |-> "comprehensive"],
     [default_strategy |-> "comprehensive", max_cost_per_query |-> 100],
     [default_strategy |-> "turbo"]}

RouteOutcomes ==
    {[raised |-> FALSE, documents |-> Ranking(<<50, 45, 40>>), error |-> ""]}
    \cup {[raised |-> TRUE, documents |-> <<>>, error |-> e] : e \in SearchErrors}

WarmOutcomes == {[raised |-> FALSE, documents |-> Ranking(<<50, 45, 40>>), error |-> ""]}

\* searches by similarity score: no document, scores below -0.15, the
\* least score of confidence 0, the least score of confidence 1, the greatest score
ScoreRankings ==
    {<<>>, Ranking(<<-50>>), Ranking(<<-16, -20>>), Ranking(<<-15>>),
     Ranking(<<35>>), Ranking(<<36, 36, 34>>), Ranking(<<100, 100>>)}

ScoreOutcomes == {[raised |-> FALSE, documents |-> r, error |-> ""] : r \in ScoreRankings}

\* per-call overrides of the similarity threshold
ThresholdUserConfigs == {NoUserConfig} \cup {[cache_threshold |-> th] : th \in {80, 100}}

\* arguments of select_strategy called directly
Tiers == {"simple", "moderate", "complex", "expert"}
Preferences == {PyNone, "", "turbo", "fast"}

\* the replies the external classifier can give at this call, when it is asked
RepliesNow == IF gemini_available THEN GeminiReplies ELSE {GeminiRaises}

\* ret: the call made last (op, query, user_config, at), how it ended
\* (outcome), what it returned (result), and what it did on the way: the tier
\* the query was given, the key set evicted, whether search was called, how
\* search ended and with which top_k
NoCall ==
    [op |-> "none", query |-> "", user_config |-> NoUserConfig, at |-> 0,
     outcome |-> "none", result |-> NoResult, complexity |-> PyNone,
     evicted |-> PyNone, search |-> "not_called", search_error |-> "", top_k |-> 0]

Init ==
    /\ config \in Configs
    /\ cache = <<>>
    /\ stats = InitStats
    /\ similarity_threshold = config.cache_threshold
    /\ max_size \in 1..MaxSize
    /\ classification_cache = <<>>
    /\ gemini_available = FALSE
    /\ strategies = STRATEGIES
    /\ threads = <<>>
    /\ queries = <<>>
    /\ aggregated = <<>>
    /\ now = 0
    /\ ret = NoCall
    /\ returned = 0
    /\ classified = <<>>
    /\ nops = 0

\* cache.get(query), called directly
Get(q, embed_ok) ==
    /\ LET r == CacheGet(cache, stats, similarity_threshold, now, q, embed_ok)
       IN  /\ cache' = r.cache
           /\ stats' = r.stats
           /\ ret' = [NoCall EXCEPT !.op = "get", !.query = q, !.at = now,
                                    !.outcome = r.outcome, !.result = r.result]
    /\ nops' = nops + 1
    /\ UNCHANGED <<similarity_threshold, max_size, config, strategies, threads,
                   routerVars, metricsVars, now, returned, classified>>

\* cache.set(...), called directly
Set(q, answer, confidence, ttl, embed_ok) ==
    /\ LET e == NewEntry(q, answer, <<>>, confidence, DirectCost, "fast", "simple",
                         ttl, now)
           r == CacheSet(cache, max_size, now, e, embed_ok)
       IN  /\ cache' = r.cache
           /\ ret' = [NoCall EXCEPT !.op = "set", !.query = q, !.at = now,
                                    !.outcome = r.outcome, !.evicted = r.evicted,
                                    !.result = [source |-> "NONE",
                                                confidence |-> confidence,
                                                ttl |-> ttl]]
    /\ nops' = nops + 1
    /\ UNCHANGED <<stats, similarity_threshold, max_size, config, strategies,
                   threads, routerVars, metricsVars, now, returned, classified>>

\* cache.clear()
Clear ==
    /\ LET r == CacheClear(cache, stats)
       IN  /\ cache' = r.cache
           /\ stats' = r.stats
    /\ ret' = [NoCall EXCEPT !.op = "clear", !.at = now, !.outcome = "done",
                             !.result = [source |-> "NONE",
                                         size_before |-> Len(cache),
                                         lookups_before |-> stats.total_queries]]
    /\ nops' = nops + 1
    /\ UNCHANGED <<similarity_threshold, max_size, config, strategies, threads,
                   routerVars, metricsVars, now, returned, classified>>

\* the clock advances between calls
Tick ==
    /\ now < MaxTime
    /\ now' = now + 1
    /\ UNCHANGED <<cacheVars, config, strategies, threads, routerVars, metricsVars,
                   ret, returned, classified, nops>>

\* router.gemini_available = b, as the router's clients set it
SetGeminiAvailable(b) ==
    /\ b # gemini_available
    /\ gemini_available' = b
    /\ ret' = [NoCall EXCEPT !.op = "set_gemini_available", !.at = now,
                             !.outcome = "done"]
    /\ nops' = nops + 1
    /\ UNCHANGED <<cacheVars, config, strategies, threads, classification_cache,
                   metricsVars, now, returned, classified>>

\* router.classify_query(query), called directly
ClassifyCall(q, reply) ==
    /\ LET cl == ClassifyQuery(classification_cache, q, gemini_available, reply)
       IN  /\ classification_cache' = cl.memo
           /\ classified' = (q :> cl.tier) @@ classified
           /\ ret' = [NoCall EXCEPT !.op = "classify_query", !.query = q, !.at = now,
                                    !.outcome = "returned", !.complexity = cl.tier,
                                    !.result = [source |-> "NONE", path |-> cl.path,
                                                reply |-> reply]]
    /\ nops' = nops + 1
    /\ UNCHANGED <<cacheVars, config, strategies, threads, gemini_available,
                   metricsVars, now, returned>>

\* router.select_strategy(complexity, user_preference), called directly
SelectStrategyCall(complexity, user_preference) ==
    /\ ret' = [NoCall EXCEPT !.op = "select_strategy", !.at = now,
                             !.outcome = "returned", !.complexity = complexity,
                             !.result = [source |-> "NONE",
                                         user_preference |-> user_preference,
                                         strategy |->
                                            SelectStrategy(complexity, user_preference)]]
    /\ nops' = nops + 1
    /\ UNCHANGED <<cacheVars, config, strategies, threads, routerVars, metricsVars,
                   now, returned, classified>>

\* orchestrator.get_recent_queries(limit), as the /api/recent-queries endpoint
\* calls it with the limit of the request
GetRecentQueriesCall(limit) ==
    /\ ret' = [NoCall EXCEPT !.op = "get_recent_queries", !.at = now,
                             !.outcome = "returned",
                             !.result = [source |-> "NONE", limit |-> limit,
                                         records |-> GetRecentQueries(queries, limit)]]
    /\ nops' = nops + 1
    /\ UNCHANGED <<cacheVars, config, strategies, threads, routerVars, metricsVars,
                   now, returned, classified>>

\* process_query before classify_query is called: no tier, the memo as it was
NotClassified ==
    [tier |-> PyNone, memo |-> classification_cache, classified |-> classified]

\* process_query raises: what is left is whatever the steps before did
Raised(q, user_config, c, st, cl, search, top_k) ==
    /\ cache' = c
    /\ stats' = st
    /\ classification_cache' = cl.memo
    /\ classified' = cl.classified
    /\ ret' = [NoCall EXCEPT !.op = "process_query", !.query = q,
                             !.user_config = user_config, !.at = now,
                             !.outcome = "raised", !.complexity = cl.tier,
                             !.search = search, !.top_k = top_k]
    /\ UNCHANGED <<metricsVars, returned>>

\* process_query returns result
Returns(q, user_config, c, st, cl, log, result, search, search_error, top_k) ==
    /\ cache' = c
    /\ stats' = st
    /\ classification_cache' = cl.memo
    /\ classified' = cl.classified
    /\ queries' = log.queries
    /\ aggregated' = log.aggregated
    /\ ret' = [NoCall EXCEPT !.op = "process_query", !.query = q,
                             !.user_config = user_config, !.at = now,
                             !.outcome = "returned", !.result = result,
                             !.complexity = cl.tier,
                             !.search = search, !.search_error = search_error,
                             !.top_k = top_k]
    /\ returned' = returned + 1

\* STEP 2 to 11 of process_query, after a cache miss or with the cache off
Retrieve(q, user_config, cfg, c, st, found, latency, embed_ok, reply) ==
    LET cq == ClassifyQuery(classification_cache, q, gemini_available, reply)
        cl == [tier |-> cq.tier, memo |-> cq.memo,
               classified |-> (q :> cq.tier) @@ classified]
        complexity == cq.tier
        strategy == BudgetedStrategy(complexity, cfg)
        unlogged == [queries |-> queries, aggregated |-> aggregated]
    IN  IF found.raised
        THEN Returns(q, user_config, c, st, cl, unlogged,
                     FallbackResponse(q, found.error),
                     "raised", found.error, strategy.top_k)
        ELSE
        LET documents == TopK(found.documents, strategy.top_k)
            answer == GenerateAnswer(q, documents)
            confidence == CalculateConfidence(documents)
            result == [answer |-> answer,
                       documents |-> [i \in 1..Len(documents) |-> SerializeDoc(documents[i])],
                       confidence |-> confidence,
                       cost |-> strategy.estimated_cost,
                       latency_ms |-> latency,
                       source |-> "RETRIEVAL",
                       strategy |-> strategy.name,
                       complexity |-> complexity,
                       num_documents_retrieved |-> Len(documents)]
            write == cfg.use_cache /\ confidence >= MinCacheConfidence
            e == NewEntry(q, answer, result.documents, confidence,
                          strategy.estimated_cost, strategy.name, complexity,
                          DefaultTtl, now)
            s == IF write THEN CacheSet(c, max_size, now, e, embed_ok)
                 ELSE [cache |-> c, outcome |-> "skipped", evicted |-> PyNone]
            m == QueryMetric(now, q, "retrieval", strategy.name, latency,
                             strategy.estimated_cost, confidence, Len(documents))
        IN  IF s.outcome = "raised"
            THEN Raised(q, user_config, s.cache, st, cl, "returned", strategy.top_k)
            ELSE Returns(q, user_config, s.cache, st, cl,
                         LogQuery(queries, aggregated, m),
                         result, "returned", "", strategy.top_k)

\* MaestroOrchestrator.process_query(query, user_config)
ProcessQuery(q, user_config, found, latency, embed_ok, reply) ==
    /\ LET cfg == MergeConfig(config, user_config)
           g == IF cfg.use_cache
                THEN CacheGet(cache, stats, similarity_threshold, now, q, embed_ok)
                ELSE [cache |-> cache, stats |-> stats, outcome |-> "miss",
                      result |-> NoResult]
       IN  CASE g.outcome = "raised" ->
                    Raised(q, user_config, g.cache, g.stats, NotClassified,
                           "not_called", 0)
             [] g.outcome = "hit" ->
                    LET m == QueryMetric(now, q, "cache", "cached", g.result.latency_ms,
                                         g.result.cost, g.result.confidence,
                                         Len(g.result.documents))
                    IN  Returns(q, user_config, g.cache, g.stats, NotClassified,
                                LogQuery(queries, aggregated, m),
                                [total_latency_ms |-> latency] @@ g.result,
                                "not_called", "", 0)
             [] OTHER -> Retrieve(q, user_config, cfg, g.cache, g.stats, found,
                                  latency, embed_ok, reply)
    /\ config' = ConfigAfter(config, user_config)
    /\ nops' = nops + 1
    /\ UNCHANGED <<similarity_threshold, max_size, strategies, threads,
                   gemini_available, now>>

(***************************************************************************)
(* Calls that run concurrently on one shared cache. Nothing in get or set  *)
(* takes a lock, so another call can run between two statements, and       *)
(* between the read and the write of a += . A call in flight is a record   *)
(* of threads: its position pc, its argument, and what it holds in locals. *)
(* From the scan on, get runs here in one step, and so does the insert of  *)
(* set: every behaviour of these steps is one of the code, which has more. *)
(***************************************************************************)
Running(op, pc, q, local, key) ==
    [op |-> op, pc |-> pc, query |-> q, local |-> local, key |-> key,
     outcome |-> "running"]

Ended(th, outcome) == [th EXCEPT !.pc = "done", !.outcome = outcome]

\* the next request to arrive
NewThread == Cardinality(DOMAIN threads) + 1

\* get, cache.py line 72: the read of self.stats["total_queries"] += 1
GetLoadTotal(t, q) ==
    /\ t = NewThread
    /\ threads' = (t :> Running("get", "store_total", q, stats.total_queries, PyNone))
                  @@ threads
    /\ UNCHANGED <<cacheVars, config, routerVars, strategies, metricsVars, now, ret,
                   returned, classified, nops>>

\* get, cache.py line 72: the write of self.stats["total_queries"] += 1
GetStoreTotal(t) ==
    /\ t \in DOMAIN threads
    /\ threads[t].op = "get" /\ threads[t].pc = "store_total"
    /\ stats' = [stats EXCEPT !.total_queries = threads[t].local + 1]
    /\ threads' = [threads EXCEPT ![t].pc = "lookup"]
    /\ UNCHANGED <<cache, similarity_threshold, max_size, config, routerVars,
                   strategies, metricsVars, now, ret, returned, classified, nops>>

\* get, cache.py lines 75 to 120: the scan, the counters of the outcome, the return
GetLookup(t) ==
    /\ t \in DOMAIN threads
    /\ threads[t].op = "get" /\ threads[t].pc = "lookup"
    /\ LET r == CacheGet(cache, stats, similarity_threshold, now, threads[t].query, TRUE)
       IN  /\ cache' = r.cache
           /\ stats' = [r.stats EXCEPT !.total_queries = stats.total_queries]
           /\ threads' = [threads EXCEPT ![t] = Ended(@, r.outcome)]
    /\ UNCHANGED <<similarity_threshold, max_size, config, routerVars, strategies,
                   metricsVars, now, ret, returned, classified, nops>>

\* set with confidence >= 0.85, cache.py lines 140 to 146: the gate, the
\* capacity test and, in a full cache, the choice of the oldest key
SetFindOldest(t, q) ==
    /\ t = NewThread
    /\ LET full == Len(cache) >= max_size
       IN  threads' =
              (t :> Running("set", IF full THEN "evict" ELSE "insert", q, 0,
                            IF full THEN cache[OldestKey(cache)].query ELSE PyNone))
              @@ threads
    /\ UNCHANGED <<cacheVars, config, routerVars, strategies, metricsVars, now, ret,
                   returned, classified, nops>>

\* set, cache.py line 147: del self.cache[oldest_key], a KeyError when the
\* key is no longer there
SetEvict(t) ==
    /\ t \in DOMAIN threads
    /\ threads[t].op = "set" /\ threads[t].pc = "evict"
    /\ LET i == KeyIndex(cache, threads[t].key)
       IN  IF i = 0
           THEN /\ threads' = [threads EXCEPT ![t] = Ended(@, "raised")]
                /\ UNCHANGED cache
           ELSE /\ threads' = [threads EXCEPT ![t].pc = "insert"]
                /\ cache' = RemoveAt(cache, i)
    /\ UNCHANGED <<stats, similarity_threshold, max_size, config, routerVars,
                   strategies, metricsVars, now, ret, returned, classified, nops>>

\* set, cache.py lines 150 to 166: the embedding and self.cache[query] = entry
SetInsert(t, answer) ==
    /\ t \in DOMAIN threads
    /\ threads[t].op = "set" /\ threads[t].pc = "insert"
    /\ cache' = Put(cache, NewEntry(threads[t].query, answer, <<>>, MinCacheConfidence,
                                    DirectCost, "fast", "simple", DefaultTtl, now))
    /\ threads' = [threads EXCEPT ![t] = Ended(@, "stored")]
    /\ UNCHANGED <<stats, similarity_threshold, max_size, config, routerVars,
                   strategies, metricsVars, now, ret, returned, classified, nops>>

(***************************************************************************)
(* Writers that log concurrently to one shared MetricsCollector. log_query *)
(* takes no lock. The append of a list is one step; the += of the count is *)
(* a read and a write; the two += of the totals run here in one step.      *)
(* A writer makes its calls one after the other.                           *)
(***************************************************************************)
\* the query the k-th call of writer t logs
WriterQuery(t, k) ==
    <<<<QRefund, QReturn, QVersus>>,
      <<QRefundTitle, QRefundCaps, QSixWords>>,
      <<QWhatLong, QPadded, QHowVersus>>>>[t][k]

Sources == {"cache", "retrieval"}

Writing(pc, call, source, local) ==
    [op |-> "log_query", pc |-> pc, call |-> call, key |-> source, local |-> local,
     outcome |-> "running"]

\* log_query, metrics.py lines 51 to 62: the metric is built and appended
LogAppend(t, source, latency) ==
    /\ \/ t = NewThread /\ t <= MaxWriters
       \/ t \in DOMAIN threads /\ threads[t].pc = "done" /\ threads[t].call < MaxCalls
    /\ LET call == IF t \in DOMAIN threads THEN threads[t].call + 1 ELSE 1
       IN  /\ queries' = Append(queries,
                                QueryMetric(now, WriterQuery(t, call), source, "fast",
                                            latency, DirectCost, MinCacheConfidence, 0))
           /\ threads' = (t :> Writing("load_count", call, source, 0)) @@ threads
    /\ UNCHANGED <<cacheVars, config, routerVars, strategies, aggregated, now, ret,
                   returned, classified, nops>>

\* log_query, metrics.py line 65: the read of self.aggregated[source]["count"] += 1,
\* which makes the defaultdict entry of a new source
LogLoadCount(t) ==
    /\ t \in DOMAIN threads
    /\ threads[t].op = "log_query" /\ threads[t].pc = "load_count"
    /\ threads' = [threads EXCEPT
                      ![t].pc = "store_count",
                      ![t].local = AggregateOf(aggregated, threads[t].key).count]
    /\ aggregated' = (threads[t].key :> AggregateOf(aggregated, threads[t].key))
                     @@ aggregated
    /\ UNCHANGED <<cacheVars, config, routerVars, strategies, queries, now, ret,
                   returned, classified, nops>>

\* log_query, metrics.py line 65: the write of self.aggregated[source]["count"] += 1
LogStoreCount(t) ==
    /\ t \in DOMAIN threads
    /\ threads[t].op = "log_query" /\ threads[t].pc = "store_count"
    /\ aggregated' = [aggregated EXCEPT
                         ![threads[t].key].count = threads[t].local + 1]
    /\ threads' = [threads EXCEPT ![t].pc = "totals"]
    /\ UNCHANGED <<cacheVars, config, routerVars, strategies, queries, now, ret,
                   returned, classified, nops>>

\* log_query, metrics.py lines 66 to 67: total_cost and total_latency
LogTotals(t) ==
    /\ t \in DOMAIN threads
    /\ threads[t].op = "log_query" /\ threads[t].pc = "totals"
    /\ LET m == CHOOSE m \in {queries[i] : i \in 1..Len(queries)} :
                    m.query = WriterQuery(t, threads[t].call)
       IN  aggregated' = [aggregated EXCEPT
                             ![threads[t].key].total_cost = @ + m.cost,
                             ![threads[t].key].total_latency = @ + m.latency_ms]
    /\ threads' = [threads EXCEPT ![t] = Ended(@, "logged")]
    /\ UNCHANGED <<cacheVars, config, routerVars, strategies, queries, now, ret,
                   returned, classified, nops>>

(***************************************************************************)
(* process_query step by step. A call in flight is a record of threads:    *)
(* its position pc, its arguments, its locals, the steps it has taken and, *)
(* once it has ended, how (hit, retrieval, fallback or raised). No step    *)
(* looks at another call in flight.                                        *)
(***************************************************************************)
Asking(pc, q, user_config, cfg) ==
    [op |-> "process_query", pc |-> pc, query |-> q, user_config |-> user_config,
     cfg |-> cfg, complexity |-> PyNone, strategy |-> [name |-> PyNone],
     documents |-> <<>>,
     answer |-> <<>>, confidence |-> 0, result |-> NoResult, steps |-> <<>>,
     outcome |-> "running"]

At(t, pc) ==
    /\ t \in DOMAIN threads
    /\ threads[t].op = "process_query"
    /\ threads[t].pc = pc

Took(th, step) == [th EXCEPT !.steps = Append(@, step)]

\* faulty variant of SearchFailed: the search is tried again
SearchRetried(th, error) == th

\* orchestrator.py lines 117 to 120: the except branch of the search
SearchFailed(th, error) ==
    Ended(Took([th EXCEPT !.result = FallbackResponse(th.query, error)],
               "fallback_response"),
          "fallback")

\* orchestrator.py lines 72 to 81: the config of the call, and whether the
\* cache is looked at
PqMerge(t, q, user_config) ==
    /\ t = NewThread
    /\ LET cfg == MergeConfig(config, user_config)
       IN  threads' = (t :> Asking(IF cfg.use_cache THEN "check_cache" ELSE "classify",
                                   q, user_config, cfg)) @@ threads
    /\ UNCHANGED <<cacheVars, config, routerVars, strategies, metricsVars, now, ret,
                   returned, classified, nops>>

\* orchestrator.py lines 82 to 98 (STEP 1): the lookup and, on a hit, the
\* metric and the return
PqCheckCache(t, latency, embed_ok) ==
    /\ At(t, "check_cache")
    /\ LET th == Took(threads[t], "cache.get")
           g == CacheGet(cache, stats, similarity_threshold, now, th.query, embed_ok)
           m == QueryMetric(now, th.query, "cache", "cached", g.result.latency_ms,
                            g.result.cost, g.result.confidence,
                            Len(g.result.documents))
       IN  /\ cache' = g.cache
           /\ stats' = g.stats
           /\ CASE g.outcome = "raised" ->
                      /\ threads' = [threads EXCEPT ![t] = Ended(th, "raised")]
                      /\ UNCHANGED metricsVars
                [] g.outcome = "hit" ->
                      /\ queries' = LogQuery(queries, aggregated, m).queries
                      /\ aggregated' = LogQuery(queries, aggregated, m).aggregated
                      /\ threads' =
                            [threads EXCEPT ![t] =
                                Ended(Took([th EXCEPT !.result =
                                               [total_latency_ms |-> latency]
                                               @@ g.result],
                                           "log_query"),
                                      "hit")]
                [] OTHER ->
                      /\ threads' = [threads EXCEPT ![t] = [th EXCEPT !.pc = "classify"]]
                      /\ UNCHANGED metricsVars
    /\ UNCHANGED <<similarity_threshold, max_size, config, routerVars, strategies,
                   now, ret, returned, classified, nops>>

\* orchestrator.py line 101 (STEP 2)
PqClassify(t, reply) ==
    /\ At(t, "classify")
    /\ LET th == Took(threads[t], "classify_query")
           cq == ClassifyQuery(classification_cache, th.query, gemini_available, reply)
       IN  /\ classification_cache' = cq.memo
           /\ classified' = (th.query :> cq.tier) @@ classified
           /\ threads' = [threads EXCEPT ![t] =
                             [th EXCEPT !.pc = "select_strategy",
                                        !.complexity = cq.tier]]
    /\ UNCHANGED <<cacheVars, config, gemini_available, strategies, metricsVars, now,
                   ret, returned, nops>>

\* orchestrator.py lines 104 to 106 (STEP 3)
PqSelectStrategy(t) ==
    /\ At(t, "select_strategy")
    /\ LET th == Took(threads[t], "select_strategy")
       IN  threads' = [threads EXCEPT ![t] =
                          [th EXCEPT !.pc = "budget_check",
                                     !.strategy = SelectStrategy(th.complexity,
                                                                 th.cfg.default_strategy)]]
    /\ UNCHANGED <<cacheVars, config, routerVars, strategies, metricsVars, now, ret,
                   returned, classified, nops>>

\* orchestrator.py lines 109 to 112 (STEP 4)
PqBudgetCheck(t) ==
    /\ At(t, "budget_check")
    /\ LET th == Took(threads[t], "budget_check")
       IN  threads' = [threads EXCEPT ![t] =
                          [th EXCEPT !.pc = "search",
                                     !.strategy =
                                        IF @.estimated_cost > th.cfg.max_cost_per_query
                                        THEN SelectStrategy("simple", PyNone)
                                        ELSE @]]
    /\ UNCHANGED <<cacheVars, config, routerVars, strategies, metricsVars, now, ret,
                   returned, classified, nops>>

\* orchestrator.py lines 115 to 120 (STEP 5)
PqSearch(t, found) ==
    /\ At(t, "search")
    /\ LET th == Took(threads[t], "search")
       IN  threads' = [threads EXCEPT ![t] =
                          IF found.raised
                          THEN SearchFailed(th, found.error)
                          ELSE [th EXCEPT !.pc = "generate_answer",
                                          !.documents = TopK(found.documents,
                                                             th.strategy.top_k)]]
    /\ UNCHANGED <<cacheVars, config, routerVars, strategies, metricsVars, now, ret,
                   returned, classified, nops>>

\* orchestrator.py line 125 (STEP 6)
PqGenerateAnswer(t) ==
    /\ At(t, "generate_answer")
    /\ LET th == Took(threads[t], "generate_answer")
       IN  threads' = [threads EXCEPT ![t] =
                          [th EXCEPT !.pc = "calculate_confidence",
                                     !.answer = GenerateAnswer(th.query, th.documents)]]
    /\ UNCHANGED <<cacheVars, config, routerVars, strategies, metricsVars, now, ret,
                   returned, classified, nops>>

\* orchestrator.py lines 130 to 156 (STEP 7 to 9, and the test of STEP 10)
PqCalculateConfidence(t, latency) ==
    /\ At(t, "calculate_confidence")
    /\ LET th == Took(threads[t], "calculate_confidence")
           confidence == CalculateConfidence(th.documents)
           result == [answer |-> th.answer,
                      documents |-> [i \in 1..Len(th.documents) |->
                                        SerializeDoc(th.documents[i])],
                      confidence |-> confidence,
                      cost |-> th.strategy.estimated_cost,
                      latency_ms |-> latency,
                      source |-> "RETRIEVAL",
                      strategy |-> th.strategy.name,
                      complexity |-> th.complexity,
                      num_documents_retrieved |-> Len(th.documents)]
       IN  threads' = [threads EXCEPT ![t] =
                          [th EXCEPT !.pc = IF th.cfg.use_cache
                                               /\ confidence >= MinCacheConfidence
                                            THEN "cache_write" ELSE "log_query",
                                     !.confidence = confidence,
                                     !.result = result]]
    /\ UNCHANGED <<cacheVars, config, routerVars, strategies, metricsVars, now, ret,
                   returned, classified, nops>>

\* orchestrator.py lines 157 to 165 (STEP 10)
PqCacheWrite(t, embed_ok) ==
    /\ At(t, "cache_write")
    /\ LET th == Took(threads[t], "cache.set")
           e == NewEntry(th.query, th.answer, th.result.documents, th.confidence,
                         th.strategy.estimated_cost, th.strategy.name, th.complexity,
                         DefaultTtl, now)
           s == CacheSet(cache, max_size, now, e, embed_ok)
       IN  /\ cache' = s.cache
           /\ threads' = [threads EXCEPT ![t] =
                             IF s.outcome = "raised" THEN Ended(th, "raised")
                             ELSE [th EXCEPT !.pc = "log_query"]]
    /\ UNCHANGED <<stats, similarity_threshold, max_size, config, routerVars,
                   strategies, metricsVars, now, ret, returned, classified, nops>>

\* orchestrator.py lines 168 to 178 (STEP 11 and the return)
PqLogQuery(t) ==
    /\ At(t, "log_query")
    /\ LET th == Took(threads[t], "log_query")
           m == QueryMetric(now, th.query, "retrieval", th.strategy.name,
                            th.result.latency_ms, th.strategy.estimated_cost,
                            th.confidence, Len(th.documents))
       IN  /\ queries' = LogQuery(queries, aggregated, m).queries
           /\ aggregated' = LogQuery(queries, aggregated, m).aggregated
           /\ threads' = [threads EXCEPT ![t] = Ended(th, "retrieval")]
    /\ UNCHANGED <<cacheVars, config, routerVars, strategies, now, ret, returned,
                   classified, nops>>

\* the steps of the call t once it is in flight
PqStep(t) ==
    \/ \E lat \in Latencies, ok \in BOOLEAN : PqCheckCache(t, lat, ok)
    \/ \E reply \in RepliesNow : PqClassify(t, reply)
    \/ PqSelectStrategy(t)
    \/ PqBudgetCheck(t)
    \/ \E found \in RouteOutcomes : PqSearch(t, found)
    \/ PqGenerateAnswer(t)
    \/ \E lat \in Latencies : PqCalculateConfidence(t, lat)
    \/ \E ok \in BOOLEAN : PqCacheWrite(t, ok)
    \/ PqLogQuery(t)

\* the calls made on a SemanticCache by itself, the clock advancing between them
CacheNext ==
    \/ nops < MaxOps /\ \E q \in Queries : Get(q, TRUE)
    \/ nops < MaxOps /\
       \E q \in Queries, a \in DirectAnswers, cf \in Confidences, ttl \in Ttls :
          Set(q, a, cf, ttl, TRUE)
    \/ nops < MaxOps /\ Clear
    \/ Tick

SpecCache == Init /\ [][CacheNext]_vars

\* the calls made on an orchestrator and on its cache, within one second
Next ==
    \/ nops < MaxOps /\ \E q \in Queries : Get(q, TRUE)
    \/ nops < MaxOps /\
       \E q \in Queries, a \in DirectAnswers, cf \in Confidences :
          Set(q, a, cf, DefaultTtl, TRUE)
    \/ nops < MaxOps /\ Clear
    \/ nops < MaxOps /\
       \E q \in Queries, uc \in UserConfigs, found \in SearchOutcomes,
          lat \in Latencies, ok \in BOOLEAN, reply \in RepliesNow :
             ProcessQuery(q, uc, found, lat, ok, reply)

Spec == Init /\ [][Next]_vars

\* process_query under per-call budgets and strategy overrides
RouteNext ==
    nops < MaxRouteOps /\
    \E q \in Queries, uc \in RouteUserConfigs, found \in RouteOutcomes,
       lat \in Latencies, ok \in BOOLEAN, reply \in RepliesNow :
          ProcessQuery(q, uc, found, lat, ok, reply)

SpecRoute == Init /\ [][RouteNext]_vars

\* a router by itself
InitRouter == Init /\ config = DefaultConfig /\ max_size = 1

\* the calls made on a QueryRouter by itself
RouterNext ==
    \/ nops < MaxOps /\ \E q \in RouterQueries, reply \in RepliesNow :
          ClassifyCall(q, reply)
    \/ nops < MaxOps /\ \E complexity \in Tiers, user_preference \in Preferences :
          SelectStrategyCall(complexity, user_preference)
    \/ nops < MaxOps /\ \E b \in BOOLEAN : SetGeminiAvailable(b)

SpecRouter == InitRouter /\ [][RouterNext]_vars

\* an orchestrator with the default configuration
InitWarm == Init /\ config = DefaultConfig

\* queries that differ in case only, asked of an orchestrator whose cache also
\* takes short-lived entries, the clock advancing between the calls
WarmNext ==
    \/ nops < MaxWarmOps /\
       \E q \in WarmQueries \ {QRefund}, a \in DirectAnswers :
          Set(q, a, MinCacheConfidence, 1, TRUE)
    \/ nops < MaxWarmOps /\
       \E q \in WarmQueries \ {QRefundCaps}, uc \in UserConfigs, found \in WarmOutcomes,
          lat \in Latencies, ok \in BOOLEAN, reply \in RepliesNow :
             ProcessQuery(q, uc, found, lat, ok, reply)
    \/ Tick

SpecWarm == InitWarm /\ [][WarmNext]_vars

\* a cache built with any capacity, max_size = 0 included
InitAnySize ==
    /\ config = DefaultConfig
    /\ cache = <<>>
    /\ stats = InitStats
    /\ similarity_threshold = config.cache_threshold
    /\ max_size \in 0..MaxSize
    /\ classification_cache = <<>>
    /\ gemini_available = FALSE
    /\ strategies = STRATEGIES
    /\ threads = <<>>
    /\ queries = <<>>
    /\ aggregated = <<>>
    /\ now = 0
    /\ ret = NoCall
    /\ returned = 0
    /\ classified = <<>>
    /\ nops = 0

\* get and set called on that cache, the embedder working or failing
AnySizeNext ==
    \/ nops < MaxOps /\ \E q \in Queries, ok \in BOOLEAN : Get(q, ok)
    \/ nops < MaxOps /\
       \E q \in Queries, a \in DirectAnswers, cf \in Confidences, ok \in BOOLEAN :
          Set(q, a, cf, DefaultTtl, ok)

SpecAnySize == InitAnySize /\ [][AnySizeNext]_vars

\* process_query over searches of any similarity score
ScoreNext ==
    nops < MaxRouteOps /\
    \E q \in Queries, found \in ScoreOutcomes, lat \in Latencies, ok \in BOOLEAN,
       reply \in RepliesNow :
          ProcessQuery(q, NoUserConfig, found, lat, ok, reply)

SpecScores == InitWarm /\ [][ScoreNext]_vars

\* the three calls that read the strategy table, on one orchestrator
TableNext ==
    \/ nops < MaxRouteOps /\
       \E q \in Queries, uc \in RouteUserConfigs, found \in RouteOutcomes,
          lat \in Latencies, reply \in RepliesNow :
             ProcessQuery(q, uc, found, lat, TRUE, reply)
    \/ nops < MaxRouteOps /\ \E q \in Queries, reply \in RepliesNow :
          ClassifyCall(q, reply)
    \/ nops < MaxRouteOps /\
       \E complexity \in Tiers, user_preference \in Preferences :
          SelectStrategyCall(complexity, user_preference)

SpecTable == InitRouter /\ [][TableNext]_vars

\* process_query under per-call similarity thresholds
ThresholdNext ==
    nops < MaxOps /\
    \E q \in Queries, uc \in ThresholdUserConfigs, found \in WarmOutcomes,
       lat \in Latencies, ok \in BOOLEAN, reply \in RepliesNow :
          ProcessQuery(q, uc, found, lat, ok, reply)

SpecThreshold == InitWarm /\ [][ThresholdNext]_vars

\* an orchestrator whose cache holds one entry at most
InitThreads == InitWarm /\ max_size = 1

\* up to MaxThreads get and set calls on one cache, their steps interleaved
ThreadsNext ==
    \/ \E t \in 1..MaxThreads, q \in Queries : GetLoadTotal(t, q)
    \/ \E t \in 1..MaxThreads : GetStoreTotal(t)
    \/ \E t \in 1..MaxThreads : GetLookup(t)
    \/ \E t \in 1..MaxThreads, q \in Queries : SetFindOldest(t, q)
    \/ \E t \in 1..MaxThreads : SetEvict(t)
    \/ \E t \in 1..MaxThreads, a \in DirectAnswers : SetInsert(t, a)

SpecThreads == InitThreads /\ [][ThreadsNext]_vars

\* up to MaxWriters writers of MaxCalls log_query calls each, their steps interleaved
LoggersNext ==
    \/ \E t \in 1..MaxWriters, source \in Sources, lat \in Latencies :
          LogAppend(t, source, lat)
    \/ \E t \in 1..MaxWriters : LogLoadCount(t)
    \/ \E t \in 1..MaxWriters : LogStoreCount(t)
    \/ \E t \in 1..MaxWriters : LogTotals(t)

SpecLoggers == InitRouter /\ [][LoggersNext]_vars

\* up to MaxInFlight process_query calls on one orchestrator, step by step,
\* the steps of different calls interleaved
InFlightNext ==
    \/ \E t \in 1..MaxInFlight, q \in {QRefund, QReturn}, uc \in UserConfigs :
          PqMerge(t, q, uc)
    \/ \E t \in 1..MaxInFlight : PqStep(t)

SpecInFlight == InitRouter /\ [][InFlightNext]_vars

\* each call in flight runs on: none of its steps waits
SpecInFlightFair ==
    SpecInFlight /\ \A t \in 1..MaxInFlight : WF_vars(PqStep(t))

\* a cache that fills up while its entries are read, as time passes
InitReads == Init /\ config = DefaultConfig /\ max_size = MaxSize

ReadsNext ==
    \/ nops < MaxReadOps /\ \E q \in Queries : Get(q, TRUE)
    \/ nops < MaxReadOps /\
       \E q \in Queries, a \in DirectAnswers, ttl \in Ttls :
          Set(q, a, MinCacheConfidence, ttl, TRUE)
    \/ Tick

SpecReads == InitReads /\ [][ReadsNext]_vars

\* an orchestrator answering queries, with and without per-call overrides,
\* while its cache is also read directly
ServeNext ==
    \/ nops < MaxServeOps /\ \E q \in Queries : Get(q, TRUE)
    \/ nops < MaxServeOps /\
       \E q \in Queries, uc \in UserConfigs, found \in SearchOutcomes,
          lat \in Latencies, reply \in RepliesNow :
             ProcessQuery(q, uc, found, lat, TRUE, reply)

SpecServe == Init /\ [][ServeNext]_vars

\* classify_query called on a router whose external classifier is disabled
RulesNext ==
    nops < MaxOps /\ \E q \in RouterQueries : ClassifyCall(q, GeminiRaises)

SpecRules == InitRouter /\ [][RulesNext]_vars

\* the limits of a request for the recent queries
Limits == 0..MaxLimit

\* an orchestrator answering queries, its log read in between
RecentNext ==
    \/ nops < MaxRecentOps /\
       \E q \in Queries, found \in WarmOutcomes, lat \in Latencies, reply \in RepliesNow :
          ProcessQuery(q, NoUserConfig, found, lat, TRUE, reply)
    \/ nops < MaxRecentOps /\ \E limit \in Limits : GetRecentQueriesCall(limit)

SpecRecent == InitWarm /\ [][RecentNext]_vars

(***************************************************************************)
(* Properties                                                              *)
(***************************************************************************)
\* the step is a call of op
CallMade(op) == nops' = nops + 1 /\ ret'.op = op

Keys(c) == {c[i].query : i \in 1..Len(c)}

\* cosine similarity of the query q to the entry e
Sim(q, e) == Cosine(Embed(q), e.query_embedding)

\* a get of q selects entry i of c: i is the nearest entry (the first of the
\* nearest ones), its similarity is positive and at least the threshold
Selects(c, q, i) ==
    /\ Sim(q, c[i]) > 0
    /\ Sim(q, c[i]) >= similarity_threshold
    /\ \A j \in 1..Len(c) :
          j # i => \/ Sim(q, c[j]) < Sim(q, c[i])
                   \/ Sim(q, c[j]) = Sim(q, c[i]) /\ i < j

EightFields ==
    {"answer", "documents", "confidence", "cost", "latency_ms", "source",
     "strategy", "complexity"}

\* the metrics source of a result's source
MetricSource(source) ==
    CASE source = "CACHE" -> "cache"
      [] source = "RETRIEVAL" -> "retrieval"
      [] source = "FALLBACK" -> "fallback"

\* C1: whenever search raises during process_query, the call returns (it does
\* not raise) a result with source FALLBACK, confidence 0, no documents and
\* the text of the error.
C1_SearchFailureFallsBack ==
    (ret.op = "process_query" /\ ret.search = "raised") =>
        /\ ret.outcome = "returned"
        /\ ret.result.source = "FALLBACK"
        /\ ret.result.confidence = 0
        /\ ret.result.documents = <<>>
        /\ ret.result.error = ret.search_error
        /\ ret.search_error \in SearchErrors

C1_Witness ==
    /\ ret.op = "process_query"
    /\ ret.search = "raised"
    /\ ret.outcome = "returned"
    /\ ret.result.source = "FALLBACK"
    /\ cache # <<>>

\* C2: process_query never propagates an exception: whichever collaborator
\* fails (Embed in the cache lookup or the cache write, Search), the call
\* returns, with a FALLBACK result of confidence 0.
C2_NeverRaises ==
    ret.op = "process_query" =>
        /\ ret.outcome = "returned"
        /\ ret.search = "raised" =>
              ret.result.source = "FALLBACK" /\ ret.result.confidence = 0

\* C3: every result process_query returns, on a cache hit, a retrieval and a
\* fallback alike, carries the eight fields answer, documents, confidence,
\* cost, latency_ms, source, strategy and complexity.
C3_EightFields ==
    (ret.op = "process_query" /\ ret.outcome = "returned") =>
        EightFields \subseteq DOMAIN ret.result

\* C4: every completed process_query call appends exactly one record to the
\* metrics log, whose source is the call's outcome; after n completed calls
\* the log holds n records.
C4_OneRecordPerCall ==
    /\ Len(queries) = returned
    /\ (ret.op = "process_query" /\ ret.outcome = "returned") =>
          /\ queries # <<>>
          /\ queries[Len(queries)].source = MetricSource(ret.result.source)

\* C5: a set with confidence < 0.85 leaves the entries and the size of the
\* cache as they were; and when no entry met the threshold for its query, the
\* get of that query that follows is a miss.
C5_LowConfidenceSetIsNoOp ==
    [][/\ (CallMade("set") /\ ret'.result.confidence < MinCacheConfidence) =>
             cache' = cache /\ Len(cache') = Len(cache)
       /\ (/\ CallMade("get")
           /\ ret.op = "set"
           /\ ret.result.confidence < MinCacheConfidence
           /\ ret'.query = ret.query
           /\ \A i \in 1..Len(cache) : Sim(ret.query, cache[i]) < similarity_threshold)
          => ret'.outcome = "miss"]_vars

C5_Witness ==
    /\ ret.op = "set"
    /\ ret.outcome = "skipped"
    /\ ret.result.confidence < MinCacheConfidence
    /\ cache # <<>>
    /\ ret.query \notin Keys(cache)

\* C6: in every reachable state, whatever set, get, clear and process_query
\* calls were made, every entry of the cache has confidence >= 0.85.
C6_EntriesAreConfident ==
    \A i \in 1..Len(cache) : cache[i].confidence >= MinCacheConfidence

C6_Witness ==
    /\ \E i \in 1..Len(cache) : cache[i].confidence = MinCacheConfidence
    /\ ret.op = "process_query"
    /\ ret.outcome = "returned"
    /\ ret.result.source = "RETRIEVAL"
    /\ ret.result.confidence < MinCacheConfidence
    /\ ret.query \notin Keys(cache)

\* C7 as stated: an entry stored with ttl = t is returned by a get that selects
\* it at every age in [0, t), and at every age >= t, the age t included, that
\* get is a miss and removes the entry.
C7_ExpiresAtTtl ==
    [][\A i \in 1..Len(cache) :
          (CallMade("get") /\ Selects(cache, ret'.query, i)) =>
              LET age == now - cache[i].cached_at
              IN  /\ age < cache[i].ttl =>
                        /\ ret'.outcome = "hit"
                        /\ ret'.result.original_query = cache[i].query
                        /\ ret'.result.answer = cache[i].answer
                  /\ age >= cache[i].ttl =>
                        /\ ret'.outcome = "miss"
                        /\ cache[i].query \notin Keys(cache')]_vars

\* C7 as amended: an entry stored with ttl = t is returned by a get that
\* selects it at every age in [0, t], the age t included, and at every age > t
\* that get is a miss and removes the entry.
C7_ExpiresAfterTtl ==
    [][\A i \in 1..Len(cache) :
          (CallMade("get") /\ Selects(cache, ret'.query, i)) =>
              LET age == now - cache[i].cached_at
              IN  /\ age <= cache[i].ttl =>
                        /\ ret'.outcome = "hit"
                        /\ ret'.result.original_query = cache[i].query
                        /\ ret'.result.answer = cache[i].answer
                  /\ age > cache[i].ttl =>
                        /\ ret'.outcome = "miss"
                        /\ cache[i].query \notin Keys(cache')]_vars

\* a get has just returned an entry whose age is exactly its ttl
C7_Witness ==
    /\ ret.op = "get"
    /\ ret.outcome = "hit"
    /\ \E i \in 1..Len(cache) :
          /\ cache[i].query = ret.result.original_query
          /\ ret.at - cache[i].cached_at = cache[i].ttl

\* C8: no get, whatever the cache holds, returns the payload of an entry whose
\* age now - cached_at exceeds its ttl.
C8_NoExpiredPayload ==
    [][(CallMade("get") /\ ret'.outcome = "hit") =>
          \E i \in 1..Len(cache) :
              /\ cache[i].query = ret'.result.original_query
              /\ ret'.result.answer = cache[i].answer
              /\ now - cache[i].cached_at <= cache[i].ttl]_vars

\* a get has just returned a live entry of a cache that also holds an expired one
C8_Witness ==
    /\ ret.op = "get"
    /\ ret.outcome = "hit"
    /\ ret.at = now
    /\ \E i, j \in 1..Len(cache) :
          /\ cache[i].query = ret.result.original_query
          /\ now - cache[i].cached_at <= cache[i].ttl
          /\ now - cache[j].cached_at > cache[j].ttl

\* the step stores a query that has no entry into a cache holding max_size entries
EvictingSet ==
    /\ CallMade("set")
    /\ ret'.outcome = "stored"
    /\ Len(cache) = max_size
    /\ ret'.query \notin Keys(cache)

\* entry v of the cache is among those cached earliest, and the step removes
\* it and no other, and adds an entry for the query stored
RemovesOnly(v) ==
    /\ \A j \in 1..Len(cache) : cache[v].cached_at <= cache[j].cached_at
    /\ Len(cache') = max_size
    /\ SubSeq(cache', 1, max_size - 1) = RemoveAt(cache, v)
    /\ cache'[max_size].query = ret'.query

\* C9 as stated: the cache never holds more than max_size entries; storing a
\* new query into a cache of max_size entries removes exactly the entry cached
\* earliest, and the query of that entry no longer hits.
C9_EvictedQueryMisses ==
    [][/\ Len(cache') <= max_size
       /\ EvictingSet =>
             \E v \in 1..Len(cache) :
                /\ RemovesOnly(v)
                /\ CacheGet(cache', stats', similarity_threshold, now,
                            cache[v].query, TRUE).outcome # "hit"]_vars

\* C9 as amended: the cache never holds more than max_size entries; storing a
\* new query into a cache of max_size entries removes exactly the entry cached
\* earliest, whose query then has no entry: a get of it is answered, if at
\* all, from the entry of another query.
C9_EvictsOldestOnly ==
    [][/\ Len(cache') <= max_size
       /\ EvictingSet =>
             \E v \in 1..Len(cache) :
                /\ RemovesOnly(v)
                /\ cache[v].query \notin Keys(cache')
                /\ LET g == CacheGet(cache', stats', similarity_threshold, now,
                                     cache[v].query, TRUE)
                   IN  g.outcome = "hit" =>
                          g.result.original_query # cache[v].query]_vars

\* a set has just evicted a query that still hits, on the entry of another query
C9_Witness ==
    /\ ret.op = "set"
    /\ ret.outcome = "stored"
    /\ ret.evicted # PyNone
    /\ ret.evicted # ret.query
    /\ Len(cache) = max_size
    /\ max_size > 1
    /\ ret.at = now
    /\ CacheGet(cache, stats, similarity_threshold, now, ret.evicted, TRUE).outcome = "hit"

\* C10: whatever the threshold, a get whose best similarity, to an entry that
\* has not expired, equals the threshold is a hit, and a get whose best
\* similarity is below the threshold is a miss.
C10_InclusiveThreshold ==
    [][\A q \in Queries :
          (CallMade("get") /\ ret'.query = q) =>
              /\ (\E i \in 1..Len(cache) :
                     /\ \A j \in 1..Len(cache) : Sim(q, cache[j]) <= Sim(q, cache[i])
                     /\ Sim(q, cache[i]) = similarity_threshold
                     /\ \A j \in 1..Len(cache) :
                           Sim(q, cache[j]) = Sim(q, cache[i]) =>
                               now - cache[j].cached_at <= cache[j].ttl)
                 => ret'.outcome = "hit"
              /\ (\A i \in 1..Len(cache) : Sim(q, cache[i]) < similarity_threshold)
                 => ret'.outcome = "miss"]_vars

\* C11: after any sequence of get calls total_queries = cache_hits +
\* cache_misses: each get adds one to total_queries and to exactly one of
\* cache_hits and cache_misses, and a get whose best match has expired is
\* counted as a miss and not as a hit.
C11_CountersAddUp ==
    [][/\ stats'.total_queries = stats'.cache_hits + stats'.cache_misses
       /\ CallMade("get") =>
             /\ stats'.total_queries = stats.total_queries + 1
             /\ \/ /\ stats'.cache_hits = stats.cache_hits + 1
                   /\ stats'.cache_misses = stats.cache_misses
                \/ /\ stats'.cache_hits = stats.cache_hits
                   /\ stats'.cache_misses = stats.cache_misses + 1
             /\ \A i \in 1..Len(cache) :
                   (Selects(cache, ret'.query, i) /\ now - cache[i].cached_at > cache[i].ttl)
                   => /\ stats'.cache_hits = stats.cache_hits
                      /\ stats'.cache_misses = stats.cache_misses + 1]_vars

\* use_cache of the merged config of a call made with user_config
MergedUseCache(user_config) ==
    IF "use_cache" \in DOMAIN user_config THEN user_config.use_cache ELSE config.use_cache

\* the last call was a process_query with use_cache = true that ended, this
\* very second, as RETRIEVAL with confidence >= 0.85
JustRetrievedConfident ==
    /\ ret.op = "process_query"
    /\ ret.outcome = "returned"
    /\ ret.result.source = "RETRIEVAL"
    /\ ret.result.confidence >= MinCacheConfidence
    /\ MergedUseCache(ret.user_config)
    /\ ret.at = now

\* the step is a process_query of the same query, with use_cache = true, that
\* the embedder does not fail
AsksAgain ==
    /\ CallMade("process_query")
    /\ ret'.query = ret.query
    /\ MergedUseCache(ret'.user_config)
    /\ ret'.outcome = "returned"

\* the entries that sit before entry j of the cache and are as similar to the
\* query q as entry j is
Shadowing(q, j) == {i \in 1..(j - 1) : Sim(q, cache[i]) >= Sim(q, cache[j])}

\* C12 as stated: when a process_query with use_cache = true ends as RETRIEVAL
\* with confidence >= 0.85, the process_query of the same query that follows
\* at once, with use_cache = true, returns source CACHE with cost 0.0001 and
\* the answer the first call stored, and does not call search.
C12_SecondCallHits ==
    [][(JustRetrievedConfident /\ AsksAgain) =>
          /\ ret'.result.source = "CACHE"
          /\ ret'.result.cost = CacheHitCost
          /\ ret'.result.answer = ret.result.answer
          /\ ret'.search = "not_called"]_vars

\* C12 as amended: the first call has stored its answer under the query, and
\* the second call returns it (source CACHE, cost 0.0001, no search) unless an
\* entry of another query string, as similar to the query as the stored one,
\* sits before it in the cache: then the second call is answered from the
\* first such entry if that is live, and if it has expired the second call
\* evicts it and retrieves again.
C12_SecondCallHitsUnshadowed ==
    [][(JustRetrievedConfident /\ AsksAgain) =>
          LET j == KeyIndex(cache, ret.query)
          IN  /\ j # 0
              /\ cache[j].answer = ret.result.answer
              /\ Shadowing(ret.query, j) = {} =>
                    /\ ret'.result.source = "CACHE"
                    /\ ret'.result.cost = CacheHitCost
                    /\ ret'.result.answer = ret.result.answer
                    /\ ret'.result.original_query = ret.query
                    /\ ret'.search = "not_called"
              /\ Shadowing(ret.query, j) # {} =>
                    LET i == CHOOSE k \in Shadowing(ret.query, j) :
                                 \A m \in Shadowing(ret.query, j) : k <= m
                    IN  IF now - cache[i].cached_at > cache[i].ttl
                        THEN /\ ret'.result.source = "RETRIEVAL"
                             /\ ret'.search = "returned"
                             /\ cache[i].query \notin Keys(cache')
                        ELSE /\ ret'.result.source = "CACHE"
                             /\ ret'.result.original_query = cache[i].query
                             /\ ret'.search = "not_called"]_vars

\* a query was retrieved and stored, and asked again at once it was answered
\* from its own entry, in a cache that holds another spelling of it as well
C12_Witness ==
    /\ ret.op = "process_query"
    /\ ret.outcome = "returned"
    /\ ret.result.source = "CACHE"
    /\ ret.result.original_query = ret.query
    /\ ret.search = "not_called"
    /\ Len(queries) >= 2
    /\ queries[Len(queries) - 1].source = "retrieval"
    /\ queries[Len(queries) - 1].query = ret.query
    /\ queries[Len(queries) - 1].timestamp = ret.at
    /\ Len(cache) >= 2

\* C13: a process_query whose merged config has use_cache = false never
\* returns source CACHE and leaves the cache as it was: the entries, their hit
\* counts and the counters total_queries, cache_hits and cache_misses.
C13_CacheOffLeavesCache ==
    [][(CallMade("process_query") /\ ~MergedUseCache(ret'.user_config)) =>
          /\ ret'.outcome = "returned"
          /\ ret'.result.source # "CACHE"
          /\ cache' = cache
          /\ \A i \in 1..Len(cache) : cache'[i].hit_count = cache[i].hit_count
          /\ stats' = stats]_vars

\* a query that has an entry in the cache was retrieved, with use_cache =
\* false, with a confidence that a cache write would accept
C13_Witness ==
    /\ ret.op = "process_query"
    /\ ~MergedUseCache(ret.user_config)
    /\ ret.outcome = "returned"
    /\ ret.result.source = "RETRIEVAL"
    /\ ret.result.confidence >= MinCacheConfidence
    /\ ret.query \in Keys(cache)
    /\ stats.total_queries = 0

\* a field of the merged config of a call made with user_config
Merged(field, user_config) ==
    IF field \in DOMAIN user_config THEN user_config[field] ELSE config[field]

\* the step is a process_query that classified its query and selected for it
\* a strategy that costs more than the max_cost_per_query of the call
OverBudget ==
    /\ CallMade("process_query")
    /\ ret'.complexity # PyNone
    /\ SelectStrategy(ret'.complexity,
                      Merged("default_strategy", ret'.user_config)).estimated_cost
          > Merged("max_cost_per_query", ret'.user_config)

\* C14: when the strategy selected costs more than max_cost_per_query the
\* query is not rejected: search is called with top_k = 2, the top_k of fast,
\* and the result of the retrieval reports the strategy fast; so it is for a
\* complex query routed to comprehensive under a budget below its cost.
C14_DowngradesToFast ==
    [][/\ OverBudget =>
             /\ ret'.search # "not_called"
             /\ ret'.top_k = 2
             /\ ret'.search = "returned" /\ ret'.outcome = "returned" =>
                   /\ ret'.result.source = "RETRIEVAL"
                   /\ ret'.result.strategy = "fast"
                   /\ Len(ret'.result.documents) <= 2
       /\ (/\ CallMade("process_query")
           /\ ret'.complexity = "complex"
           /\ Merged("default_strategy", ret'.user_config) \notin DOMAIN STRATEGIES
           /\ Merged("max_cost_per_query", ret'.user_config)
                 < STRATEGIES.comprehensive.estimated_cost)
          => OverBudget]_vars

\* a complex query was served with fast under a budget below the cost of
\* comprehensive
C14_Witness ==
    /\ ret.op = "process_query"
    /\ ret.outcome = "returned"
    /\ ret.complexity = "complex"
    /\ ret.user_config = [max_cost_per_query |-> 100]
    /\ ret.result.source = "RETRIEVAL"
    /\ ret.result.strategy = "fast"
    /\ ret.top_k = 2

\* the last call was a process_query that returned a RETRIEVAL result
Retrieved ==
    /\ ret.op = "process_query"
    /\ ret.outcome = "returned"
    /\ ret.result.source = "RETRIEVAL"

\* C15 as stated: for every query and every max_cost_per_query, a RETRIEVAL
\* result has cost <= the max_cost_per_query of the call's merged config.
C15_CostWithinBudget ==
    Retrieved => ret.result.cost <= Merged("max_cost_per_query", ret.user_config)

\* C15 as amended: a RETRIEVAL result has cost <= max_cost_per_query when
\* max_cost_per_query is at least 0.003, the cost of fast; under a smaller
\* budget the query is served with fast all the same and costs 0.003.
C15_CostWithinBudgetOrFast ==
    Retrieved =>
        IF Merged("max_cost_per_query", ret.user_config) >= 30
        THEN ret.result.cost <= Merged("max_cost_per_query", ret.user_config)
        ELSE ret.result.cost = 30 /\ ret.result.strategy = "fast"

\* a query was retrieved under a budget below the cost of fast
C15_Witness ==
    /\ Retrieved
    /\ Merged("max_cost_per_query", ret.user_config) = 10
    /\ ret.result.cost = 30

\* the last call was a process_query, not served from the cache, whose merged
\* config names a strategy of the table
Overridden ==
    /\ ret.op = "process_query"
    /\ ret.outcome = "returned"
    /\ ret.result.source # "CACHE"
    /\ Merged("default_strategy", ret.user_config) \in DOMAIN STRATEGIES

\* C16 as stated: when the merged config names a strategy of the table, a
\* process_query not served from the cache retrieves with that strategy and
\* reports it in the result, for every query tier and every config.
C16_OverrideWins ==
    Overridden =>
        LET override == Merged("default_strategy", ret.user_config)
        IN  /\ ret.search # "not_called"
            /\ ret.top_k = STRATEGIES[override].top_k
            /\ ret.result.source = "RETRIEVAL" => ret.result.strategy = override

\* C16 as amended: when the merged config names a strategy of the table, a
\* process_query not served from the cache retrieves with that strategy and
\* reports it in the result of the retrieval, whatever the tier of the query,
\* unless the strategy costs more than max_cost_per_query: then it retrieves
\* with fast and reports fast.
C16_OverrideWinsWithinBudget ==
    Overridden =>
        LET override == Merged("default_strategy", ret.user_config)
            used == IF STRATEGIES[override].estimated_cost
                          > Merged("max_cost_per_query", ret.user_config)
                    THEN "fast" ELSE override
        IN  /\ ret.search # "not_called"
            /\ ret.top_k = STRATEGIES[used].top_k
            /\ ret.result.source = "RETRIEVAL" =>
                  /\ ret.result.strategy = used
                  /\ ret.result.cost = STRATEGIES[used].estimated_cost

\* a simple query was retrieved with comprehensive, the strategy its call named
C16_Witness ==
    /\ Overridden
    /\ ret.complexity = "simple"
    /\ ret.result.source = "RETRIEVAL"
    /\ ret.result.strategy = "comprehensive"
    /\ ret.top_k = 10

\* C17: select_strategy is total: with no override, or with an override that
\* is not in the table, it returns fast for simple, balanced for moderate,
\* comprehensive for complex and balanced for any other tier; it never raises.
C17_SelectStrategyTotal ==
    ret.op = "select_strategy" =>
        /\ ret.outcome = "returned"
        /\ \E name \in DOMAIN STRATEGIES : ret.result.strategy = STRATEGIES[name]
        /\ ret.result.user_preference \notin {"fast", "balanced", "comprehensive"} =>
              ret.result.strategy.name =
                 CASE ret.complexity = "simple" -> "fast"
                   [] ret.complexity = "moderate" -> "balanced"
                   [] ret.complexity = "complex" -> "comprehensive"
                   [] OTHER -> "balanced"

\* select_strategy was given a tier it does not know and an override that is
\* not in the table
C17_Witness ==
    /\ ret.op = "select_strategy"
    /\ ret.outcome = "returned"
    /\ ret.complexity = "expert"
    /\ ret.result.user_preference = "turbo"
    /\ ret.result.strategy.name = "balanced"
    /\ ret.result.strategy.top_k = 5

\* C18: in any sequence of classify_query calls on one router, a call with a
\* query string that was classified before returns the tier that string got
\* before, and takes the memoized path: nothing is recomputed and the memo is
\* left as it was.
C18_ClassifyIdempotent ==
    [][(CallMade("classify_query") /\ ret'.query \in DOMAIN classified) =>
          /\ ret'.complexity = classified[ret'.query]
          /\ ret'.result.path = "memo"
          /\ classification_cache' = classification_cache]_vars

\* the one query string classified so far was classified again, from the memo,
\* while the external classifier would have answered with another tier
C18_Witness ==
    /\ ret.op = "classify_query"
    /\ ret.result.path = "memo"
    /\ DOMAIN classified = {ret.query}
    /\ gemini_available
    /\ ~ret.result.reply.raised
    /\ ClassifyWithGemini(ret.result.reply) \notin {PyNone, ret.complexity}

\* the tier the rules give a text, in their order: a comparative or analytical
\* keyword; an explanatory keyword; at most 5 tokens or a factual prefix
TierByPriority(s) ==
    CASE \E k \in ComplexKeywords : Contains(Lower(s), k) -> "complex"
      [] /\ \A k \in ComplexKeywords : ~Contains(Lower(s), k)
         /\ \E k \in ModerateKeywords : Contains(Lower(s), k) -> "moderate"
      [] /\ \A k \in ComplexKeywords \cup ModerateKeywords : ~Contains(Lower(s), k)
         /\ \/ WordCount(s) <= 5
            \/ \E k \in SimplePrefixes : StartsWith(Lower(s), k) -> "simple"
      [] OTHER -> "moderate"

\* the tiers of the query strings, worked out by hand from the rules
ExpectedTier ==
    (QRefund :> "simple") @@ (QRefundTitle :> "simple") @@ (QRefundCaps :> "simple")
    @@ (QReturn :> "moderate") @@ (QVersus :> "complex") @@ (QEmpty :> "simple")
    @@ (QSixWords :> "moderate") @@ (QWhatLong :> "simple")
    @@ (QPadded :> "moderate") @@ (QHowVersus :> "complex")

\* C19: with the external classifier disabled and an empty memo, classify_query
\* gives the tier of the first rule that matches, in the order complex
\* keyword, explanatory keyword, at most 5 tokens or factual prefix, and
\* moderate otherwise; every string, the empty one too, gets a tier.
C19_RulesInPriority ==
    [][(CallMade("classify_query") /\ ~gemini_available /\ classification_cache = <<>>) =>
          /\ ret'.outcome = "returned"
          /\ ret'.complexity \in {"simple", "moderate", "complex"}
          /\ ret'.complexity = TierByPriority(Text(ret'.query))
          /\ ret'.complexity = ExpectedTier[ret'.query]
          /\ ret'.result.path = "rules"]_vars

\* a query with a comparative and an explanatory keyword was classified by the
\* rules, on an empty memo
C19_Witness ==
    /\ ret.op = "classify_query"
    /\ ret.query = QHowVersus
    /\ ret.complexity = "complex"
    /\ ret.result.path = "rules"
    /\ ~gemini_available
    /\ DOMAIN classification_cache = {Normalized(QHowVersus)}
    /\ nops = 1

\* the external classifier raises, or answers with a text that is none of
\* simple, moderate and complex
Unusable(reply) == reply.raised \/ Lower(Strip(reply.text)) \notin DOMAIN TierOfLabel

\* C20: when the external classifier is enabled and, asked about a query that
\* is not in the memo, raises, is unavailable or answers with a label outside
\* {simple, moderate, complex}, classify_query still returns a tier: the
\* rule-based tier of the query, which is what the memo then holds under the
\* normalized query.
C20_FallsBackToRules ==
    [][(/\ CallMade("classify_query")
        /\ gemini_available
        /\ Normalized(ret'.query) \notin DOMAIN classification_cache
        /\ Unusable(ret'.result.reply))
       => /\ ret'.outcome = "returned"
          /\ ret'.complexity = ExpectedTier[ret'.query]
          /\ ret'.result.path = "rules"
          /\ DOMAIN classification_cache' =
                DOMAIN classification_cache \cup {Normalized(ret'.query)}
          /\ classification_cache'[Normalized(ret'.query)] = ExpectedTier[ret'.query]
          /\ \A k \in DOMAIN classification_cache :
                classification_cache'[k] = classification_cache[k]]_vars

\* the external classifier, enabled, answered a comparison with a label that
\* is no tier, and the rules classified it
C20_Witness ==
    /\ ret.op = "classify_query"
    /\ gemini_available
    /\ ret.query = QVersus
    /\ ~ret.result.reply.raised
    /\ Unusable(ret.result.reply)
    /\ ret.result.path = "rules"
    /\ ret.complexity = "complex"
    /\ classification_cache[Normalized(QVersus)] = "complex"

\* C21: no get and no set call on a SemanticCache raises to its caller,
\* whatever the cache holds, whatever max_size it was built with (0 included)
\* and also when the embedder fails: a get ends as a hit or a miss, a set as
\* stored or skipped.
C21_CacheNeverRaises ==
    ret.op \in {"get", "set"} => ret.outcome # "raised"

\* C22: for every list of documents search returns (any similarity scores in
\* [-1, 1], any length) the confidence of the result of process_query lies in
\* [0, 1], and it is 0 when the list is empty.
C22_ConfidenceInUnitRange ==
    (ret.op = "process_query" /\ ret.outcome = "returned"
        /\ ret.search = "returned") =>
        /\ ret.result.confidence \in 0..10000
        /\ ret.result.documents = <<>> => ret.result.confidence = 0

\* C23: after n completed process_query calls on one orchestrator, whatever
\* their per-call configs and outcomes, get_metrics()["total_queries"] is n.
C23_TotalQueriesCountsCalls ==
    GetMetrics(queries, aggregated, cache, stats).total_queries = returned

\* C24: from any state of the cache, clear leaves no entry and the counters
\* total_queries, cache_hits and cache_misses at 0, so that get_stats reports
\* a hit_rate of 0 and a cache_size of 0; the get that follows a clear,
\* whatever its query, is a miss.
C24_ClearResets ==
    [][/\ CallMade("clear") =>
             /\ cache' = <<>>
             /\ stats'.total_queries = 0 /\ stats'.cache_hits = 0
             /\ stats'.cache_misses = 0
             /\ GetStats(cache', stats').hit_rate = 0
             /\ GetStats(cache', stats').cache_size = 0
       /\ (ret.op = "clear" /\ CallMade("get")) =>
             /\ ret'.outcome = "miss"
             /\ stats'.total_queries = 1 /\ stats'.cache_misses = 1
      ]_vars

\* a clear of a cache that held an entry and had counted a lookup
C24_Witness ==
    /\ ret.op = "clear"
    /\ ret.result.size_before > 0
    /\ ret.result.lookups_before > 0
    /\ cache = <<>>
    /\ stats = InitStats

\* C25: the strategy table is the one the module defines, whatever
\* process_query, classify_query and select_strategy calls were made, and it
\* is strictly ordered: estimated_cost and top_k both grow from fast to
\* balanced to comprehensive; a strategy handed to a caller is a row of it.
C25_StrategyTableFixed ==
    /\ strategies = STRATEGIES
    /\ strategies.fast.estimated_cost < strategies.balanced.estimated_cost
    /\ strategies.balanced.estimated_cost < strategies.comprehensive.estimated_cost
    /\ strategies.fast.top_k < strategies.balanced.top_k
    /\ strategies.balanced.top_k < strategies.comprehensive.top_k
    /\ ret.op = "select_strategy" =>
          ret.result.strategy = STRATEGIES[ret.result.strategy.name]

\* a process_query that retrieved with a strategy of the table, after
\* another call
C25_Witness ==
    /\ nops = MaxRouteOps
    /\ ret.op = "process_query"
    /\ ret.search = "returned"
    /\ ret.result.strategy \in DOMAIN strategies
    /\ ret.result.cost = strategies[ret.result.strategy].estimated_cost

\* C26, as stated, for the thresholds above 0: a get reports a miss only when
\* no entry that has not expired has similarity >= threshold to the query; a
\* live entry that meets the threshold is returned also when a nearer entry
\* has expired.
C26_MissOnlyWithoutLiveMatch ==
    [][(CallMade("get") /\ similarity_threshold > 0 /\ ret'.outcome = "miss") =>
          ~ \E i \in 1..Len(cache) :
                /\ Sim(ret'.query, cache[i]) >= similarity_threshold
                /\ now - cache[i].cached_at <= cache[i].ttl]_vars

\* C26, amended: with a threshold above 0, a get is a hit exactly when the
\* nearest entry of all, expired ones included (the first stored among
\* equally near ones), has similarity >= threshold and has not expired, and
\* the hit is that entry; when the nearest entry has expired the get removes
\* it and is a miss, whatever live entries meet the threshold.
C26_HitIffNearestIsLive ==
    [][(CallMade("get") /\ similarity_threshold > 0) =>
          LET q == ret'.query
              nearest == {i \in 1..Len(cache) : Selects(cache, q, i)}
          IN  /\ ret'.outcome = "hit" <=>
                    \E i \in nearest : now - cache[i].cached_at <= cache[i].ttl
              /\ ret'.outcome = "hit" =>
                    \E i \in nearest : ret'.result.original_query = cache[i].query
              /\ (ret'.outcome = "miss" /\ nearest # {}) =>
                    \A i \in nearest : cache[i].query \notin Keys(cache')]_vars

\* a get has just missed on an expired nearest entry, and the cache holds a
\* live entry that meets the threshold
C26_Witness ==
    /\ ret.op = "get"
    /\ ret.outcome = "miss"
    /\ ret.at = now
    /\ similarity_threshold > 0
    /\ stats.cache_hits > 0
    /\ \E i \in 1..Len(cache) :
          /\ Sim(ret.query, cache[i]) >= similarity_threshold
          /\ now - cache[i].cached_at <= cache[i].ttl

\* C27: a set with confidence >= 0.85 for a query string that has an entry
\* replaces that entry and leaves every other entry, and the size, as they
\* were, also in a cache that holds max_size entries: nothing is evicted
\* unless storing would exceed max_size.
C27_OverwriteKeepsOthers ==
    [][(CallMade("set") /\ ret'.result.confidence >= MinCacheConfidence
           /\ ret'.query \in Keys(cache)) =>
          /\ ret'.outcome = "stored"
          /\ Len(cache') = Len(cache)
          /\ \A i \in 1..Len(cache) :
                cache[i].query # ret'.query =>
                    \E j \in 1..Len(cache') : cache'[j] = cache[i]
          /\ \E j \in 1..Len(cache') :
                /\ cache'[j].query = ret'.query
                /\ cache'[j].cached_at = now
                /\ cache'[j].hit_count = 0]_vars

\* C30: the threshold the cache lookup of a process_query call applies is the
\* cache_threshold of the merged config of that call: with the cache on, the
\* call is answered from the cache exactly when the nearest entry has a
\* similarity of at least that threshold (no entry expires within the second).
C30_PerCallThresholdDecides ==
    [][(CallMade("process_query") /\ ret'.outcome = "returned"
           /\ Merged("use_cache", ret'.user_config)) =>
          LET q == ret'.query
              threshold == Merged("cache_threshold", ret'.user_config)
          IN  ret'.result.source = "CACHE" <=>
                 \E i \in 1..Len(cache) :
                     /\ Sim(q, cache[i]) >= threshold
                     /\ \A j \in 1..Len(cache) : Sim(q, cache[j]) <= Sim(q, cache[i])
      ]_vars

\* the calls in flight have all ended
AllDone == \A t \in DOMAIN threads : threads[t].pc = "done"

\* C28: when the reads and writes of concurrent get and set calls on one
\* cache interleave, no update is lost and no eviction races: the cache
\* never holds more than max_size entries, no call fails because another
\* call removed an entry meanwhile, and once all calls have ended
\* total_queries is the number of get calls.
C28_NoLostUpdateNoRace ==
    /\ Len(cache) <= max_size
    /\ \A t \in DOMAIN threads : threads[t].outcome # "raised"
    /\ AllDone =>
          stats.total_queries =
              Cardinality({t \in DOMAIN threads : threads[t].op = "get"})

\* the place in the log of the record of the k-th call of writer t
PlaceOf(t, k) == {i \in 1..Len(queries) : queries[i].query = WriterQuery(t, k)}

\* C29: when the log_query calls of concurrent writers interleave, no metric
\* is lost or duplicated: the log holds exactly one record for each call
\* made, the records of one writer stand in the order of its calls, and once
\* all calls have ended the aggregated count of each source is the number of
\* records of that source in the log.
C29_NoMetricLost ==
    /\ \A t \in DOMAIN threads :
          /\ \A k \in 1..MaxCalls :
                Cardinality(PlaceOf(t, k)) = IF k <= threads[t].call THEN 1 ELSE 0
          /\ \A k, l \in 1..threads[t].call :
                k < l => \A i \in PlaceOf(t, k), j \in PlaceOf(t, l) : i < j
    /\ AllDone =>
          \A source \in Sources :
              AggregateOf(aggregated, source).count =
                  Cardinality({i \in 1..Len(queries) : queries[i].source = source})

IsPrefix(a, b) == Len(a) <= Len(b) /\ SubSeq(b, 1, Len(a)) = a

\* the steps of a call after its cache lookup, if it made one
AfterLookup(th) ==
    IF th.steps # <<>> /\ Head(th.steps) = "cache.get" THEN Tail(th.steps) ELSE th.steps

UpToSearch == <<"classify_query", "select_strategy", "budget_check", "search">>

RetrievalOrders ==
    {UpToSearch \o <<"generate_answer", "calculate_confidence">> \o tail :
        tail \in {<<"cache.set", "log_query">>, <<"log_query">>}}

FallbackOrder == UpToSearch \o <<"fallback_response">>

\* C31: a process_query call that does not hit the cache takes its steps in
\* the order classify, select strategy, budget check, search, and then either
\* the fallback response, or generate answer, calculate confidence, the cache
\* write if there is one, and the metrics record last; search is called at
\* most once in a call.
C31_StepsInOrder ==
    \A t \in DOMAIN threads :
        LET th == threads[t]
            s == AfterLookup(th)
        IN  th.outcome # "hit" =>
               /\ \E order \in RetrievalOrders \cup {FallbackOrder} : IsPrefix(s, order)
               /\ th.outcome = "retrieval" => s \in RetrievalOrders
               /\ th.outcome = "fallback" => s = FallbackOrder
               /\ Cardinality({i \in 1..Len(s) : s[i] = "search"}) <= 1

\* one call has ended as a retrieval that wrote to the cache and then logged,
\* another as a fallback
C31_Witness ==
    \E t, u \in DOMAIN threads :
        /\ threads[t].outcome = "retrieval"
        /\ threads[t].steps = <<"cache.get">> \o UpToSearch
                              \o <<"generate_answer", "calculate_confidence",
                                   "cache.set", "log_query">>
        /\ threads[u].outcome = "fallback"
        /\ AfterLookup(threads[u]) = FallbackOrder

\* C32: every process_query call in flight eventually ends, as exactly one of
\* cache hit, retrieval and fallback, each collaborator call returning or
\* raising, and whatever other calls are in flight.
C32_ReachesOneOutcome ==
    \A t \in 1..MaxInFlight :
        (t \in DOMAIN threads) ~>
            (/\ t \in DOMAIN threads
             /\ threads[t].pc = "done"
             /\ threads[t].outcome \in {"hit", "retrieval", "fallback"})


C34_HitCountedOnce ==
    [][CallMade("get") =>
          /\ ret'.outcome = "hit" =>
                /\ Len(cache') = Len(cache)
                /\ \E i \in 1..Len(cache) :
                      /\ cache[i].query = ret'.result.original_query
                      /\ cache'[i].hit_count = cache[i].hit_count + 1
                      /\ ret'.result.hit_count = cache[i].hit_count + 1
                      /\ \A j \in 1..Len(cache) :
                            j # i => /\ cache'[j].query = cache[j].query
                                     /\ cache'[j].hit_count = cache[j].hit_count
          /\ ret'.outcome = "miss" =>
                \A i \in 1..Len(cache') :
                   \E j \in 1..Len(cache) :
                      /\ cache[j].query = cache'[i].query
                      /\ cache[j].hit_count = cache'[i].hit_count]_vars

\* a get has hit one entry of two for the second time, and reports 2; the
\* other entry was never counted
C34_Witness ==
    /\ ret.op = "get"
    /\ ret.outcome = "hit"
    /\ ret.result.hit_count = 2
    /\ Len(cache) = 2
    /\ \E i, j \in 1..Len(cache) :
          /\ cache[i].query = ret.result.original_query
          /\ cache[i].hit_count = 2
          /\ j # i
          /\ cache[j].hit_count = 0


\* what a cache entry holds for the caller of a later hit
Payload(e) ==
    [answer |-> e.answer, documents |-> e.documents, confidence |-> e.confidence,
     strategy |-> e.strategy, complexity |-> e.complexity, query |-> e.query]

\* C35: a get that hits returns the answer, documents, confidence, strategy
\* and complexity stored by the call that created the entry it matched, with
\* the query text of that entry, source CACHE, a cost of 0.0001 (1 in
\* ten-thousandths) and a latency of 5 ms; the entry matched is one of highest
\* similarity to the query.
C35_HitReturnsStoredPayload ==
    [][/\ (CallMade("get") /\ ret'.outcome = "hit") =>
             \E i \in 1..Len(cache) :
                /\ \A j \in 1..Len(cache) :
                      Sim(ret'.query, cache[j]) <= Sim(ret'.query, cache[i])
                /\ ret'.result.cache_similarity = Sim(ret'.query, cache[i])
                /\ ret'.result.answer = cache[i].answer
                /\ ret'.result.documents = cache[i].documents
                /\ ret'.result.confidence = cache[i].confidence
                /\ ret'.result.strategy = cache[i].strategy
                /\ ret'.result.complexity = cache[i].complexity
                /\ ret'.result.original_query = cache[i].query
                /\ ret'.result.source = "CACHE"
                /\ ret'.result.cost = 1
                /\ ret'.result.latency_ms = 5
       /\ \A i \in 1..Len(cache') :
             \/ \E j \in 1..Len(cache) : Payload(cache[j]) = Payload(cache'[i])
             \/ /\ CallMade("set")
                /\ cache'[i].query = ret'.query
                /\ cache'[i].confidence = ret'.result.confidence
             \/ /\ CallMade("process_query")
                /\ ret'.result.source = "RETRIEVAL"
                /\ cache'[i].query = ret'.query
                /\ cache'[i].answer = ret'.result.answer
                /\ cache'[i].documents = ret'.result.documents
                /\ cache'[i].confidence = ret'.result.confidence
                /\ cache'[i].strategy = ret'.result.strategy
                /\ cache'[i].complexity = ret'.result.complexity]_vars

\* a get has hit, on the entry of another query that process_query stored with
\* its documents, in a cache of two entries
C35_Witness ==
    /\ ret.op = "get"
    /\ ret.outcome = "hit"
    /\ ret.result.original_query # ret.query
    /\ Len(ret.result.documents) > 0
    /\ ret.result.cost = 1
    /\ Len(cache) = 2


\* C36: a process_query call served from the cache calls neither the
\* classifier nor the strategy selection nor search: it leaves the
\* classification memo and the set of cache entries as they were, appends one
\* metric of source cache, and returns the payload of the entry it matched.
C36_HitSkipsRetrieval ==
    [][(/\ CallMade("process_query")
        /\ ret'.outcome = "returned"
        /\ ret'.result.source = "CACHE") =>
          /\ ret'.complexity = PyNone
          /\ ret'.search = "not_called"
          /\ ret'.top_k = 0
          /\ classification_cache' = classification_cache
          /\ classified' = classified
          /\ Len(cache') = Len(cache)
          /\ \A i \in 1..Len(cache) : cache'[i].query = cache[i].query
          /\ Len(queries') = Len(queries) + 1
          /\ SubSeq(queries', 1, Len(queries)) = queries
          /\ queries'[Len(queries')].source = "cache"
          /\ queries'[Len(queries')].query = ret'.query
          /\ \A s \in DOMAIN aggregated' :
                aggregated'[s].count =
                    Cardinality({k \in 1..Len(queries') : queries'[k].source = s})
          /\ \E i \in 1..Len(cache) :
                /\ Selects(cache, ret'.query, i)
                /\ ret'.result.answer = cache[i].answer
                /\ ret'.result.documents = cache[i].documents
                /\ ret'.result.confidence = cache[i].confidence
                /\ ret'.result.strategy = cache[i].strategy
                /\ ret'.result.complexity = cache[i].complexity]_vars

\* process_query has answered from the cache a query whose tier is in the
\* memo, after a retrieval; the log holds the two calls
C36_Witness ==
    /\ ret.op = "process_query"
    /\ ret.outcome = "returned"
    /\ ret.result.source = "CACHE"
    /\ DOMAIN classification_cache # {}
    /\ Len(queries) = 2
    /\ queries[1].source = "retrieval"
    /\ queries[2].source = "cache"


\* C37: the tier classify_query returns for a query does not depend on the
\* queries classified before it: with the external classifier disabled, after
\* any sequence of classify_query calls, the tier returned for q is the
\* rule-based tier of q, also when q differs from an earlier query only in
\* letter case or surrounding whitespace.
C37_TierIndependentOfHistory ==
    [][(CallMade("classify_query") /\ ~gemini_available) =>
          ret'.complexity = ClassifyWithRules(Text(ret'.query))]_vars


\* C38: for every limit >= 0 and every log, get_recent_queries(limit) returns
\* at most limit records: the min(limit, length of the log) records appended
\* last, the newest first.
C38_AtMostLimitNewestFirst ==
    [][(CallMade("get_recent_queries") /\ ret'.result.limit >= 0) =>
          LET r == ret'.result.records
              n == Len(queries)
          IN  /\ Len(r) = Min(ret'.result.limit, n)
              /\ \A k \in 1..Len(r) : r[k] = queries[n - k + 1]]_vars


\* C39: the overrides of a process_query call apply to that call only: the
\* call leaves the configuration of the orchestrator as it was, so a following
\* call without overrides runs under the defaults, and looks the query up in
\* the cache also after a call made with use_cache = false.
C39_OverridesLastOneCall ==
    [][CallMade("process_query") =>
          /\ config' = config
          /\ config'.use_cache
          /\ ret'.user_config = NoUserConfig =>
                stats'.total_queries = stats.total_queries + 1]_vars

\* a call without overrides has looked the query up, and was answered from the
\* cache, after a call with use_cache = false that made no lookup
C39_Witness ==
    /\ ret.op = "process_query"
    /\ ret.user_config = NoUserConfig
    /\ ret.outcome = "returned"
    /\ stats.total_queries = 2
    /\ stats.cache_hits = 1
    /\ Len(queries) = 3
    /\ queries[2].source = "retrieval"
    /\ queries[3].source = "cache"

====
